---- MODULE Spec2Model ----
(***************************************************************************)
(* TriageIR-CLI: the structured logger (src/logger.rs), its retry and      *)
(* graceful-degradation helpers, and the scan orchestrator (src/main.rs).  *)
(*                                                                         *)
(* Three specifications share the one Logger object `entries`:             *)
(*   SpecLogger  threads calling Logger::log, readers calling get_entries, *)
(*               get_summary and clear;                                    *)
(*   SpecHelpers retry_operation and handle_error_gracefully;              *)
(*   Spec        one run of main(): the seven collectors, the report, the  *)
(*               output writer and the exit code.                          *)
(***************************************************************************)
EXTENDS Integers, Sequences, FiniteSets, TLC

(***************************************************************************)
(* Bounds of the model.                                                    *)
(***************************************************************************)
\* Capacity of the logger SpecLogger runs.  Logger::new sets the field
\* max_entries to 10000; Logger::log reads the field, and SpecLogger runs the
\* same code on a logger whose field holds this smaller capacity, so that
\* overflow happens within the other bounds.  SpecHelpers and Spec run a
\* logger of the real capacity.
MaxEntriesBound == 2
\* Threads sharing the logger in SpecLogger.
NumThreads == 2
\* Logger::log calls made in one behaviour of SpecLogger (all threads).
MaxLogCalls == 3

\* What the host of one scan may show beyond a bare host (every variable set,
\* no process, empty tables, no prefetch directory, no shimcache key): the
\* number of records, failures and present directories, keys and values,
\* summed over the scan.
MaxDeviations == 2

\* Largest max_attempts handed to retry_operation in SpecHelpers.
MaxAttemptsBound == 3

Min(a, b) == IF a <= b THEN a ELSE b

(***************************************************************************)
(* types.rs: LogLevel, LogEntry                                            *)
(***************************************************************************)
\* LogLevel::as_str over the three variants of the enum.
LogLevel == {"INFO", "WARN", "ERROR"}

\* LogEntry::new(level, message); the timestamp is the creation time and is
\* carried as the ticket `ts` drawn from the clock when the entry is built.
LogEntry_new(level, message, ts) ==
    [level |-> level, message |-> message, timestamp |-> ts]

(***************************************************************************)
(* logger.rs: Logger                                                       *)
(***************************************************************************)
\* Logger::new: max_entries, the capacity every logger is built with.
DefaultMaxEntries == 10000

\* VecDeque::pop_front
pop_front(q) == IF Len(q) = 0 THEN q ELSE Tail(q)

\* Faulty variant of push_back: the entry goes to the front of the queue.
push_back_front(q, e) == <<e>> \o q

\* VecDeque::push_back
push_back(q, e) == Append(q, e)

\* Faulty variant of Logger_push: the eviction test is off by one (> for >=).
Logger_push_late(q, e, cap) ==
    push_back(IF Len(q) > cap THEN pop_front(q) ELSE q, e)

\* The critical section of Logger::log: evict the oldest entry when the
\* queue is full, then append.
Logger_push(q, e, cap) ==
    push_back(IF Len(q) >= cap THEN pop_front(q) ELSE q, e)

\* Number of entries of q at a level for which P holds.
RECURSIVE CountLevel(_, _)
CountLevel(q, lv) ==
    IF q = <<>> THEN 0
    ELSE (IF Head(q).level = lv THEN 1 ELSE 0) + CountLevel(Tail(q), lv)

RECURSIVE CountOther(_)
CountOther(q) ==
    IF q = <<>> THEN 0
    ELSE (IF Head(q).level \notin LogLevel THEN 1 ELSE 0) + CountOther(Tail(q))

\* Faulty variant of Logger_get_summary: the "ERROR" arm falls through to `_`.
Logger_get_summary_fallthrough(q) ==
    [total_count |-> Len(q),
     info_count  |-> CountLevel(q, "INFO"),
     warn_count  |-> CountLevel(q, "WARN"),
     error_count |-> CountLevel(q, "ERROR"),
     other_count |-> CountOther(q) + CountLevel(q, "ERROR")]

\* Logger::get_summary, run under the lock on the queue q.
Logger_get_summary(q) ==
    [total_count |-> Len(q),
     info_count  |-> CountLevel(q, "INFO"),
     warn_count  |-> CountLevel(q, "WARN"),
     error_count |-> CountLevel(q, "ERROR"),
     other_count |-> CountOther(q)]

\* LogSummary::default
LogSummary_default ==
    [total_count |-> 0, info_count |-> 0, warn_count |-> 0,
     error_count |-> 0, other_count |-> 0]

\* LogSummary::success_rate.  The f64 quotient ((total - error) / total) * 100
\* is kept exact as the fraction num/den.
success_rate(s) ==
    IF s.total_count = 0
    THEN [num |-> 100, den |-> 1]
    ELSE [num |-> (s.total_count - s.error_count) * 100, den |-> s.total_count]

\* Logger::log called by sequential code for each of `items` (level, message)
\* in turn; the timestamps are the tickets after `ts`.
RECURSIVE Logger_log_all(_, _, _, _)
Logger_log_all(q, items, ts, cap) ==
    IF items = <<>> THEN q
    ELSE Logger_log_all(
            Logger_push(q, LogEntry_new(Head(items)[1], Head(items)[2], ts + 1), cap),
            Tail(items), ts + 1, cap)

\* Logger::get_entries, run under the lock: a copy of the queue, front first.
Logger_get_entries(q) == q

\* Logger::clear
Logger_clear(q) == <<>>

(***************************************************************************)
(* logger.rs: error_handling                                               *)
(***************************************************************************)
\* enum ErrorKind
ErrorKind == {"AccessDenied", "SystemApiError", "NotFound", "InvalidData",
              "NetworkError", "Timeout", "Unknown"}

\* Faulty variant of is_fatal: a timeout is fatal too.
is_fatal_timeout(kind) == kind \in {"SystemApiError", "InvalidData", "Timeout"}

\* ForensicError::is_fatal
is_fatal(kind) == kind \in {"SystemApiError", "InvalidData"}

\* ForensicError::is_retryable
is_retryable(kind) == kind \in {"NetworkError", "Timeout"}

\* ForensicResult<T>: Ok(value) or Err(ForensicError of a kind)
Ok(v) == [ok |-> TRUE, value |-> v]
Err(kind) == [ok |-> FALSE, kind |-> kind]
Values == {"v1", "v2"}
ForensicResults == {Ok(v) : v \in Values} \cup {Err(k) : k \in ErrorKind}

\* Option<T>
Some(v) == [some |-> TRUE, value |-> v]
None == [some |-> FALSE]

\* Faulty variant of graceful_level: every failure is logged at ERROR.
graceful_level_error(kind) == "ERROR"

\* handle_error_gracefully, the level of the entry logged for an Err.
graceful_level(kind) == IF is_fatal(kind) THEN "ERROR" ELSE "WARN"

\* handle_error_gracefully, the value returned.
graceful_value(result) == IF result.ok THEN Some(result.value) ELSE None

\* Faulty variant of retry_continues: the last attempt is retried too (<= for <).
retry_continues_last(kind, att, max) == is_retryable(kind) /\ att <= max

\* retry_operation, line 323: the attempt failed and the loop goes on.
retry_continues(kind, att, max) == is_retryable(kind) /\ att < max

(***************************************************************************)
(* The collectors.  Each is an operator from what the host shows the       *)
(* collector (its environment) to the pair it returns: `items`, the        *)
(* artifacts, and `logs`, its own log as (level, message) pairs.  A        *)
(* message is the pair of its text and the number formatted into it.       *)
(***************************************************************************)
\* Stable sort of s by the strict order Less (slice::sort_by).
SortBy(s, Less(_, _)) ==
    LET n == Len(s)
        pos(i) == Cardinality({j \in 1..n :
                      \/ Less(s[j], s[i])
                      \/ (~Less(s[i], s[j]) /\ j < i)}) + 1
    IN  [k \in 1..n |-> s[CHOOSE i \in 1..n : pos(i) = k]]

RECURSIVE SumSeq(_)
SumSeq(s) == IF s = <<>> THEN 0 ELSE Head(s) + SumSeq(Tail(s))

\* A source a collector reads: it fails, or it yields n records.
Failed == [ok |-> FALSE, n |-> 0]
Yields(n) == [ok |-> TRUE, n |-> n]

\* The records a source named `src` yields.
Records(src, r) == [i \in 1..r.n |-> [source |-> src, id |-> i]]

\* The log line a collector writes for one source: the count at INFO, or
\* the failure at the level `lv`.
SourceLog(r, found, lv, failure) ==
    IF r.ok THEN <<"INFO", <<found, r.n>>>> ELSE <<lv, <<failure, 0>>>>

\* --- processes.rs -------------------------------------------------------
\* What a process shows of its executable: no path, a file that hashes, or
\* a file that cannot be read.
ExeStatus == {"no_path", "readable", "unreadable"}

\* Process::has_executable_path
has_executable_path(p) == p.exe # "no_path"

\* Strings whose characters matter are sequences of characters.
NotAvailable == <<"N", "/", "A">>
HashError == <<"E", "R", "R", "O", "R">>
HexDigits ==
    <<"0", "1", "2", "3", "4", "5", "6", "7", "8", "9", "a", "b", "c", "d", "e", "f">>

\* hex::encode: two lower-case digits for each byte, the high one first.
hex_encode(bytes) ==
    [i \in 1..(2 * Len(bytes)) |->
        LET b == bytes[(i + 1) \div 2]
        IN  IF i % 2 = 1 THEN HexDigits[(b \div 16) + 1] ELSE HexDigits[(b % 16) + 1]]

\* Sha256 of a file: 32 bytes fixed by the contents (here the number that
\* stands for them); which bytes is of no concern.
sha256_digest(contents) == [i \in 1..32 |-> (contents * 89 + i * 37) % 256]

\* calculate_file_hash: the digest in hex, or an error when the path is not
\* usable or the file cannot be read.
calculate_file_hash(p) ==
    IF p.exe = "readable" THEN Ok(hex_encode(sha256_digest(p.pid))) ELSE Err("Unknown")

\* Faulty variant of process_hash: the hash is attempted without asking
\* has_executable_path.
process_hash_unguarded(p) ==
    IF calculate_file_hash(p).ok THEN calculate_file_hash(p).value ELSE HashError

\* collect_processes, lines 26-41: the value of sha256_hash.
process_hash(p) ==
    IF has_executable_path(p)
    THEN (IF calculate_file_hash(p).ok THEN calculate_file_hash(p).value ELSE HashError)
    ELSE NotAvailable

\* Hash failures among the first k processes visited.
HashFailures(procs, k) ==
    Cardinality({i \in 1..k : process_hash(procs[i]) = HashError})

\* Faulty variant of collect_processes: every hash failure is logged.
collect_processes_uncapped(procs) ==
    LET n == Len(procs)
        failing == SelectSeq([i \in 1..n |-> i],
                             LAMBDA i : process_hash(procs[i]) = HashError)
        errors == HashFailures(procs, n)
    IN  [items |-> SortBy([i \in 1..n |-> [source |-> "process", id |-> procs[i].pid,
                                            exe |-> procs[i].exe,
                                            sha256_hash |-> process_hash(procs[i])]],
                          LAMBDA a, b : a.id < b.id),
         logs  |-> <<<<"INFO", <<"Starting process enumeration", 0>>>>,
                     <<"INFO", <<"Found running processes", n>>>>>>
                   \o [k \in 1..Len(failing) |->
                          <<"WARN", <<"Failed to calculate hash", procs[failing[k]].pid>>>>]
                   \o <<<<"INFO", <<"Successfully collected process details", n>>>>>>
                   \o (IF errors > 0
                       THEN <<<<"WARN", <<"Failed to calculate hashes", errors>>>>>>
                       ELSE <<>>)
                   \o <<<<"INFO", <<"Process enumeration completed", 0>>>>>>]

\* collect_processes: procs is the process table in the order it is visited.
collect_processes(procs) ==
    LET n == Len(procs)
        failing == SelectSeq([i \in 1..n |-> i],
                             LAMBDA i : process_hash(procs[i]) = HashError
                                        /\ HashFailures(procs, i) <= 5)
        errors == HashFailures(procs, n)
    IN  [items |-> SortBy([i \in 1..n |-> [source |-> "process", id |-> procs[i].pid,
                                            exe |-> procs[i].exe,
                                            sha256_hash |-> process_hash(procs[i])]],
                          LAMBDA a, b : a.id < b.id),
         logs  |-> <<<<"INFO", <<"Starting process enumeration", 0>>>>,
                     <<"INFO", <<"Found running processes", n>>>>>>
                   \o [k \in 1..Len(failing) |->
                          <<"WARN", <<"Failed to calculate hash", procs[failing[k]].pid>>>>]
                   \o <<<<"INFO", <<"Successfully collected process details", n>>>>>>
                   \o (IF errors > 0
                       THEN <<<<"WARN", <<"Failed to calculate hashes", errors>>>>>>
                       ELSE <<>>)
                   \o <<<<"INFO", <<"Process enumeration completed", 0>>>>>>]

\* --- network.rs ---------------------------------------------------------
\* collect_network_connections: env.tcp and env.udp are what
\* collect_tcp_connections and collect_udp_connections return.
collect_network_connections(env) ==
    LET conns == Records("TCP", env.tcp) \o Records("UDP", env.udp)
        rank(c) == IF c.source = "TCP" THEN 1 ELSE 2
    IN  [items |-> SortBy(conns, LAMBDA a, b :
                             rank(a) < rank(b) \/ (rank(a) = rank(b) /\ a.id < b.id)),
         logs  |-> <<<<"INFO", <<"Starting network connection enumeration", 0>>>>,
                     SourceLog(env.tcp, "Found TCP connections", "ERROR",
                               "Failed to collect TCP connections"),
                     SourceLog(env.udp, "Found UDP connections", "ERROR",
                               "Failed to collect UDP connections"),
                     <<"INFO", <<"Total connections", Len(conns)>>>>,
                     <<"INFO", <<"Network connection enumeration completed", 0>>>>>>]

\* --- persistence.rs -----------------------------------------------------
\* Rank of the mechanism_type strings in the order String::cmp gives them.
PersistenceTypeRank(src) ==
    CASE src = "Registry Run Key" -> 1
      [] src = "Scheduled Task"   -> 2
      [] src = "Startup Folder"   -> 3
      [] src = "Windows Service"  -> 4

\* The records a sub-collector returns, in the order the registry, the
\* directory or schtasks enumerates them, which is not the order of the names
\* (id stands for the name; here the last name comes first).
Enumerated(src, r) == [i \in 1..r.n |-> [source |-> src, id |-> r.n - i + 1]]

\* Faulty variant of collect_persistence_mechanisms: the list is not sorted.
collect_persistence_mechanisms_unsorted(env) ==
    LET found == Enumerated("Registry Run Key", env.run_keys)
                 \o Enumerated("Startup Folder", env.startup)
                 \o Enumerated("Windows Service", env.services)
                 \o Enumerated("Scheduled Task", env.tasks)
    IN  [items |-> found,
         logs  |-> <<<<"INFO", <<"Starting persistence mechanism detection", 0>>>>,
                     SourceLog(env.run_keys, "Found Registry Run key entries", "WARN",
                               "Failed to collect Registry Run keys"),
                     SourceLog(env.startup, "Found Startup folder entries", "WARN",
                               "Failed to collect Startup folder entries"),
                     SourceLog(env.services, "Found potentially suspicious services", "WARN",
                               "Failed to collect service information"),
                     SourceLog(env.tasks, "Found scheduled tasks", "WARN",
                               "Failed to collect scheduled tasks"),
                     <<"INFO", <<"Total persistence mechanisms found", Len(found)>>>>,
                     <<"INFO", <<"Persistence mechanism detection completed", 0>>>>>>]

\* collect_persistence_mechanisms: the four sub-collectors in their order.
collect_persistence_mechanisms(env) ==
    LET found == Enumerated("Registry Run Key", env.run_keys)
                 \o Enumerated("Startup Folder", env.startup)
                 \o Enumerated("Windows Service", env.services)
                 \o Enumerated("Scheduled Task", env.tasks)
    IN  [items |-> SortBy(found, LAMBDA a, b :
                     \/ PersistenceTypeRank(a.source) < PersistenceTypeRank(b.source)
                     \/ (a.source = b.source /\ a.id < b.id)),
         logs  |-> <<<<"INFO", <<"Starting persistence mechanism detection", 0>>>>,
                     SourceLog(env.run_keys, "Found Registry Run key entries", "WARN",
                               "Failed to collect Registry Run keys"),
                     SourceLog(env.startup, "Found Startup folder entries", "WARN",
                               "Failed to collect Startup folder entries"),
                     SourceLog(env.services, "Found potentially suspicious services", "WARN",
                               "Failed to collect service information"),
                     SourceLog(env.tasks, "Found scheduled tasks", "WARN",
                               "Failed to collect scheduled tasks"),
                     <<"INFO", <<"Total persistence mechanisms found", Len(found)>>>>,
                     <<"INFO", <<"Persistence mechanism detection completed", 0>>>>>>]

\* --- event_logs.rs ------------------------------------------------------
\* EventLogs::total_entries
total_entries(ev) == Len(ev.security) + Len(ev.system) + Len(ev.application)

\* collect_event_logs: the three logs in their order.
collect_event_logs(env) ==
    LET ev == [security    |-> Records("Security", env.security),
               system      |-> Records("System", env.system),
               application |-> Records("Application", env.application)]
    IN  [items |-> ev,
         logs  |-> <<<<"INFO", <<"Starting event log collection", 0>>>>,
                     SourceLog(env.security, "Collected Security log entries", "WARN",
                               "Failed to collect Security log entries"),
                     SourceLog(env.system, "Collected System log entries", "WARN",
                               "Failed to collect System log entries"),
                     SourceLog(env.application, "Collected Application log entries", "WARN",
                               "Failed to collect Application log entries"),
                     <<"INFO", <<"Total event log entries collected", total_entries(ev)>>>>,
                     <<"INFO", <<"Event log collection completed", 0>>>>>>]

\* --- prefetch.rs --------------------------------------------------------
RECURSIVE Concat(_)
Concat(ss) == IF ss = <<>> THEN <<>> ELSE Head(ss) \o Concat(Tail(ss))

\* AuditEntry with the fields the orchestrator reads.
AuditEntry(level, action, n) == [level |-> level, action |-> action, n |-> n]

\* What the directory walk meets: a .pf file that is analysed, a .pf file
\* that cannot be read or parsed, an entry the walk fails on, another file.
WalkEntry == {"pf_ok", "pf_err", "walk_err", "other"}

\* collect_prefetch_from_directory: dir.exists and dir.walk, directory d.
collect_prefetch_from_directory(d, dir) ==
    IF ~dir.exists
    THEN [items |-> <<>>,
          logs  |-> <<AuditEntry("WARN", "prefetch directory_check", d)>>]
    ELSE LET n == Len(dir.walk)
             idx == [i \in 1..n |-> i]
             one(i) == CASE dir.walk[i] = "pf_ok" ->
                               <<AuditEntry("DEBUG", "prefetch analyze_file", i)>>
                         [] dir.walk[i] = "pf_err" ->
                               <<AuditEntry("ERROR", "prefetch analyze_file", i)>>
                         [] dir.walk[i] = "walk_err" ->
                               <<AuditEntry("ERROR", "prefetch directory_walk", i)>>
                         [] OTHER -> <<>>
             files == SelectSeq(idx, LAMBDA i : dir.walk[i] = "pf_ok")
         IN  [items |-> [k \in 1..Len(files) |->
                            [source |-> "prefetch", dir |-> d, id |-> files[k]]],
              logs  |-> <<AuditEntry("INFO", "prefetch scan_directory", d)>>
                        \o Concat([i \in 1..n |-> one(i)])]

\* collect_prefetch_files: dirs are the two standard directories, in order.
collect_prefetch_files(dirs) ==
    LET per == [d \in 1..Len(dirs) |-> collect_prefetch_from_directory(d, dirs[d])]
        files == Concat([d \in 1..Len(dirs) |-> per[d].items])
    IN  [items |-> files,
         logs  |-> <<AuditEntry("INFO", "prefetch start_collection", 0)>>
                   \o Concat([d \in 1..Len(dirs) |-> per[d].logs])
                   \o <<AuditEntry("INFO", "prefetch complete_collection", Len(files))>>]

\* --- shimcache.rs -------------------------------------------------------
\* What enum_values yields for one value of the key: an error, a value whose
\* name matches neither "AppCompat*" nor "*Cache*", a matching value that
\* can be read, a matching value that cannot.
ValueKind == {"enum_err", "unrelated", "related", "unreadable"}

\* The values enum_values walks: the AppCompatCache value itself, when the
\* key has it, and the others.
EnumValues(key) ==
    (IF key.cache.state = "absent" THEN <<>> ELSE <<"related">>) \o key.values

\* collect_shimcache_from_key, line 118: x.unwrap() on a value that
\* enum_values could not read.
key_panics(key) ==
    key.opened /\ \E i \in 1..Len(EnumValues(key)) : EnumValues(key)[i] = "enum_err"

\* collect_shimcache_from_key for key k, when it returns.
collect_shimcache_from_key(k, key) ==
    IF ~key.opened
    THEN [ok |-> FALSE, items |-> <<>>, logs |-> <<>>]
    ELSE LET parsed == IF key.cache.state = "parsed"
                       THEN [i \in 1..key.cache.n |->
                                [source |-> "shimcache", key |-> k, id |-> i]]
                       ELSE <<>>
             cachelog == CASE key.cache.state = "parsed" ->
                                <<AuditEntry("DEBUG", "shimcache parse_cache_data", Len(parsed))>>
                           [] key.cache.state = "invalid" ->
                                <<AuditEntry("ERROR", "shimcache parse_cache_data", 0)>>
                           [] OTHER -> <<>>
             vals == EnumValues(key)
             hits == SelectSeq([i \in 1..Len(vals) |-> i], LAMBDA i : vals[i] = "related")
         IN  [ok    |-> TRUE,
              items |-> parsed \o [j \in 1..Len(hits) |->
                            [source |-> "shimcache value", key |-> k, id |-> hits[j]]],
              logs  |-> <<AuditEntry("DEBUG", "shimcache registry_open", k)>>
                        \o cachelog
                        \o [j \in 1..Len(hits) |->
                              AuditEntry("DEBUG", "shimcache parse_individual_entry", hits[j])]]

\* collect_shimcache_entries: keys are the four registry locations, in order.
collect_shimcache_entries(keys) ==
    LET per == [k \in 1..Len(keys) |-> collect_shimcache_from_key(k, keys[k])]
        found == Concat([k \in 1..Len(keys) |-> per[k].items])
        one(k) == IF per[k].ok THEN per[k].logs
                  ELSE <<AuditEntry("WARN", "shimcache registry_access", k)>>
    IN  [panics |-> \E k \in 1..Len(keys) : key_panics(keys[k]),
         items  |-> found,
         logs   |-> <<AuditEntry("INFO", "shimcache start_collection", 0)>>
                    \o Concat([k \in 1..Len(keys) |-> one(k)])
                    \o <<AuditEntry("INFO", "shimcache complete_collection", Len(found))>>]

\* --- main.rs ------------------------------------------------------------
\* main, lines 339-344 and 380-385: an audit entry becomes a LogEntry of the
\* same level whose message is built from component, action and details.
AuditToLog(a) == <<a.level, <<a.action, a.n>>>>

\* Faulty variant of add_logs: the entries are put before those already held.
add_logs_front(log, logs, ts) ==
    [i \in 1..Len(logs) |-> LogEntry_new(logs[i][1], logs[i][2], ts + i)] \o log

\* ScanResults::add_log for each of `logs`, stamped as they are created.
add_logs(log, logs, ts) ==
    log \o [i \in 1..Len(logs) |-> LogEntry_new(logs[i][1], logs[i][2], ts + i)]

\* Faulty variant of count_artifacts: Artifacts::total_artifact_count of types.rs,
\* which leaves the execution evidence out.
count_artifacts_types(procs, conns, mechs, events, pf, sc) ==
    Len(procs) + Len(conns) + Len(mechs) + events

\* main, line 403: total_artifacts.
count_artifacts(procs, conns, mechs, events, pf, sc) ==
    Len(procs) + Len(conns) + Len(mechs) + events + Len(pf) + Len(sc)

\* collect_system_info_safe, lines 545-574: the closure `operation`.
system_info_operation(computername, username, clock_ok) ==
    IF ~computername THEN Err("SystemApiError")
    ELSE IF ~username THEN Err("SystemApiError")
    ELSE IF ~clock_ok THEN Err("SystemApiError")
    ELSE Ok("system_info")

(***************************************************************************)
(* State                                                                   *)
(***************************************************************************)
VARIABLES
    entries,     \* Logger.entries: the guarded queue of LogEntry
    max_entries, \* Logger.max_entries
    mutex,       \* the threads holding the Mutex around entries (none or one)
    tpc,         \* per thread: position inside Logger::log
    tentry,      \* per thread: the LogEntry built before taking the lock
    sent,        \* per thread: number of Logger::log calls started
    clock,       \* ticket source standing for chrono::Utc::now()
    appended,    \* history: entries pushed since construction or clear
    reader       \* the last reader call in flight and what it returned

logger_vars == <<entries, max_entries, mutex, tpc, tentry, sent, clock, appended, reader>>

VARIABLES
    hpc,          \* helper workbench: "idle", "retry_loop", "retry_done", "graceful_done"
    max_attempts, \* retry_operation: the argument
    attempt,      \* retry_operation: the loop variable
    last_error,   \* retry_operation: Option<ForensicError>
    outcomes,     \* what each invocation of the operation returned, in order
    helper_in,    \* handle_error_gracefully: the argument `result`
    helper_out,   \* what the helper returned
    slept,        \* milliseconds spent in thread::sleep
    call_log      \* entries the helper handed to the logger, in order

helper_vars == <<hpc, max_attempts, attempt, last_error, outcomes, helper_in,
                 helper_out, slept, call_log>>

VARIABLES
    pc,                     \* main: the step it is at
    verbose,                \* --verbose
    output_file,            \* --output was given
    host,                   \* COMPUTERNAME / USERNAME are set; portable mode
    used,                   \* deviations from a bare host met so far
    invoked,                \* the collector entry points called, in order
    collection_log,         \* scan_results.collection_log
    system_info,            \* "collected" or "defaults"
    processes,              \* the JSON arrays main builds, as sequences
    network_connections,
    persistence_mechanisms,
    event_logs,
    prefetch_files,
    shimcache_entries,
    total_artifacts,
    log_summary,            \* logger.get_summary() of line 410
    report,                 \* final_scan_results
    stdout_text,            \* lines of text println! wrote to standard output
    stdout_json,            \* JSON reports written to standard output
    stderr_text,            \* lines written to standard error
    out_file,               \* the output file: "none", "json" or "partial"
    exit_code               \* None while running, Some(code) once exited

artifact_vars == <<system_info, processes, network_connections,
                   persistence_mechanisms, event_logs, prefetch_files,
                   shimcache_entries>>

result_vars == <<total_artifacts, log_summary, report, stdout_json, out_file,
                 exit_code>>

main_vars == <<pc, verbose, output_file, host, used, invoked, collection_log,
               artifact_vars, result_vars, stdout_text, stderr_text>>

\* One collection function applied on its own, and what main emits of it.
VARIABLES
    call,      \* the function applied ("none" before any)
    given,     \* what it read
    returned   \* what the report holds of its result

record_vars == <<call, given, returned>>

vars == <<logger_vars, helper_vars, main_vars, record_vars>>

Threads == 1..NumThreads
NoEntry == [level |-> "NONE", message |-> <<0, 0>>, timestamp |-> 0]
NoReader == [op |-> "none"]

RECURSIVE SumSent(_, _)
SumSent(f, n) == IF n = 0 THEN 0 ELSE f[n] + SumSent(f, n - 1)

TotalCalls == SumSent(sent, NumThreads)

(***************************************************************************)
(* SpecLogger: Logger::log from several threads, and the readers           *)
(***************************************************************************)
\* Logger::new, with the capacity `cap` in the field max_entries.
InitLoggerVars(cap) ==
    /\ entries = <<>>
    /\ max_entries = cap
    /\ mutex = {}
    /\ tpc = [t \in Threads |-> "idle"]
    /\ tentry = [t \in Threads |-> NoEntry]
    /\ sent = [t \in Threads |-> 0]
    /\ clock = 0
    /\ appended = <<>>
    /\ reader = NoReader

InitHelperVars ==
    /\ hpc = "idle"
    /\ max_attempts = 0
    /\ attempt = 0
    /\ last_error = None
    /\ outcomes = <<>>
    /\ helper_in = None
    /\ helper_out = None
    /\ slept = 0
    /\ call_log = <<>>

NoReport == [built |-> FALSE]

InitRecordVars ==
    /\ call = "none"
    /\ given = <<>>
    /\ returned = <<>>

InitMainVars ==
    /\ pc = "start"
    /\ verbose = FALSE
    /\ output_file = FALSE
    /\ host = [computername |-> TRUE, username |-> TRUE, portable |-> FALSE]
    /\ used = 0
    /\ invoked = <<>>
    /\ collection_log = <<>>
    /\ system_info = "none"
    /\ processes = <<>>
    /\ network_connections = <<>>
    /\ persistence_mechanisms = <<>>
    /\ event_logs = [security |-> <<>>, system |-> <<>>, application |-> <<>>]
    /\ prefetch_files = <<>>
    /\ shimcache_entries = <<>>
    /\ total_artifacts = 0
    /\ log_summary = LogSummary_default
    /\ report = NoReport
    /\ stdout_text = 0
    /\ stdout_json = 0
    /\ stderr_text = 0
    /\ out_file = "none"
    /\ exit_code = None

InitLogger == InitLoggerVars(MaxEntriesBound) /\ InitHelperVars /\ InitMainVars /\ InitRecordVars

\* Logger::log, lines 39-44: the entry is built (and echoed when verbose)
\* before the lock is requested.
LogCreate(t, level) ==
    /\ tpc[t] = "idle"
    /\ TotalCalls < MaxLogCalls
    /\ sent' = [sent EXCEPT ![t] = @ + 1]
    /\ clock' = clock + 1
    /\ tentry' = [tentry EXCEPT ![t] = LogEntry_new(level, <<t, sent[t] + 1>>, clock + 1)]
    /\ tpc' = [tpc EXCEPT ![t] = "created"]
    /\ UNCHANGED <<entries, max_entries, mutex, appended, reader, helper_vars, main_vars, record_vars>>

\* Logger::log, line 47: self.entries.lock()
LogLock(t) ==
    /\ tpc[t] = "created"
    /\ mutex = {}
    /\ mutex' = {t}
    /\ tpc' = [tpc EXCEPT ![t] = "locked"]
    /\ UNCHANGED <<entries, max_entries, tentry, sent, clock, appended, reader, helper_vars, main_vars, record_vars>>

\* Logger::log, lines 49-53: evict, push_back, and drop the guard.
LogPush(t) ==
    /\ tpc[t] = "locked"
    /\ mutex = {t}
    /\ entries' = Logger_push(entries, tentry[t], max_entries)
    /\ appended' = Append(appended, tentry[t])
    /\ mutex' = {}
    /\ tpc' = [tpc EXCEPT ![t] = "idle"]
    /\ tentry' = [tentry EXCEPT ![t] = NoEntry]
    /\ UNCHANGED <<max_entries, sent, clock, reader, helper_vars, main_vars, record_vars>>

\* Logger::get_entries: lock, copy, unlock.
GetEntries ==
    /\ reader = NoReader
    /\ mutex = {}
    /\ reader' = [op |-> "get_entries", result |-> Logger_get_entries(entries),
                  seen |-> entries, history |-> appended]
    /\ UNCHANGED <<entries, max_entries, mutex, tpc, tentry, sent, clock, appended, helper_vars, main_vars, record_vars>>

\* Logger::get_summary: lock, count, unlock.
GetSummary ==
    /\ reader = NoReader
    /\ mutex = {}
    /\ reader' = [op |-> "get_summary", result |-> Logger_get_summary(entries),
                  seen |-> entries, history |-> appended]
    /\ UNCHANGED <<entries, max_entries, mutex, tpc, tentry, sent, clock, appended, helper_vars, main_vars, record_vars>>

\* Logger::clear: lock, clear, unlock.
Clear ==
    /\ reader = NoReader
    /\ mutex = {}
    /\ entries # <<>>
    /\ entries' = Logger_clear(entries)
    /\ appended' = <<>>
    /\ UNCHANGED <<max_entries, mutex, tpc, tentry, sent, clock, reader, helper_vars, main_vars, record_vars>>

\* The caller of a reader drops what it was given.
ReaderReturn ==
    /\ reader # NoReader
    /\ reader' = NoReader
    /\ UNCHANGED <<entries, max_entries, mutex, tpc, tentry, sent, clock, appended, helper_vars, main_vars, record_vars>>

(***************************************************************************)
(* SpecHelpers: retry_operation and handle_error_gracefully                *)
(***************************************************************************)
\* The helper logs `items` through the logger of the caller's thread.
HelperLogs(items) ==
    /\ entries' = Logger_log_all(entries, items, clock, max_entries)
    /\ clock' = clock + Len(items)
    /\ call_log' = call_log \o items
    /\ UNCHANGED <<max_entries, mutex, tpc, tentry, sent, appended, reader>>
    /\ UNCHANGED <<main_vars, record_vars>>

\* retry_operation is entered: last_error = None, the loop starts at 1.
RetryCall(max) ==
    /\ hpc = "idle"
    /\ hpc' = "retry_loop"
    /\ max_attempts' = max
    /\ attempt' = 1
    /\ last_error' = None
    /\ UNCHANGED <<outcomes, helper_in, helper_out, slept>>
    /\ HelperLogs(<<>>)

\* One iteration of the loop: the operation is invoked and returns `r`.
RetryAttempt(r) ==
    /\ hpc = "retry_loop"
    /\ attempt <= max_attempts
    /\ outcomes' = Append(outcomes, r)
    /\ IF r.ok
       THEN /\ HelperLogs(IF attempt > 1
                          THEN <<<<"INFO", <<"succeeded", attempt>>>>>>
                          ELSE <<>>)
            /\ helper_out' = r
            /\ hpc' = "retry_done"
            /\ UNCHANGED <<attempt, last_error, slept>>
       ELSE IF retry_continues(r.kind, attempt, max_attempts)
       THEN /\ HelperLogs(<<<<"WARN", <<"retrying", attempt>>>>>>)
            /\ slept' = slept + 100 * attempt
            /\ last_error' = Some(r.kind)
            /\ attempt' = attempt + 1
            /\ UNCHANGED <<hpc, helper_out>>
       ELSE /\ HelperLogs(<<>>)
            /\ helper_out' = r
            /\ hpc' = "retry_done"
            /\ UNCHANGED <<attempt, last_error, slept>>
    /\ UNCHANGED <<max_attempts, helper_in>>

\* Faulty variant of exhausted_kind: without a last error the kind is Timeout.
exhausted_kind_timeout(last) ==
    IF last.some THEN last.value ELSE "Timeout"

\* retry_operation, line 334: last_error.unwrap_or_else(|| ForensicError::new(
\* ErrorKind::Unknown, ...)), as the kind of the error returned.
exhausted_kind(last) ==
    IF last.some THEN last.value ELSE "Unknown"

\* The loop ran out (line 334): the last error, or Unknown when there is none.
RetryExhausted ==
    /\ hpc = "retry_loop"
    /\ attempt > max_attempts
    /\ helper_out' = Err(exhausted_kind(last_error))
    /\ hpc' = "retry_done"
    /\ UNCHANGED <<max_attempts, attempt, last_error, outcomes, helper_in, slept>>
    /\ HelperLogs(<<>>)

\* handle_error_gracefully(result, logger, operation_name)
HandleErrorGracefully(result) ==
    /\ hpc = "idle"
    /\ helper_in' = result
    /\ helper_out' = graceful_value(result)
    /\ HelperLogs(IF result.ok THEN <<>>
                  ELSE <<<<graceful_level(result.kind), <<"graceful", 0>>>>>>)
    /\ hpc' = "graceful_done"
    /\ UNCHANGED <<max_attempts, attempt, last_error, outcomes, slept>>

InitHelpers == InitLoggerVars(DefaultMaxEntries) /\ InitHelperVars /\ InitMainVars /\ InitRecordVars

NextHelpers ==
    \/ \E max \in 0..MaxAttemptsBound : RetryCall(max)
    \/ \E r \in ForensicResults : RetryAttempt(r)
    \/ RetryExhausted
    \/ \E r \in ForensicResults : HandleErrorGracefully(r)

SpecHelpers == InitHelpers /\ [][NextHelpers]_vars

NextLogger ==
    \/ \E t \in Threads, level \in LogLevel : LogCreate(t, level)
    \/ \E t \in Threads : LogLock(t)
    \/ \E t \in Threads : LogPush(t)
    \/ GetEntries
    \/ GetSummary
    \/ Clear
    \/ ReaderReturn

SpecLogger == InitLogger /\ [][NextLogger]_vars

(***************************************************************************)
(* Spec: one run of main()                                                 *)
(***************************************************************************)
\* The deviations the rest of the scan may still show.
Budget == MaxDeviations - used

SeqsUpTo(S, n) == UNION {[1..k -> S] : k \in 0..n}

BoolCost(b) == IF b THEN 1 ELSE 0

\* What a source may return within b deviations, and what it takes of them.
SourceResults(b) == {Yields(k) : k \in 0..b} \cup (IF b >= 1 THEN {Failed} ELSE {})
SourceCost(r) == IF r.ok THEN r.n ELSE 1

\* Process tables of at most b processes, visited from the highest PID down.
ProcessEnvs(b) ==
    {[i \in 1..Len(st) |-> [pid |-> Len(st) - i + 1, exe |-> st[i]]] :
        st \in SeqsUpTo(ExeStatus, b)}

NetworkCost(e) == SourceCost(e.tcp) + SourceCost(e.udp)
NetworkEnvs(b) ==
    {e \in [tcp : SourceResults(b), udp : SourceResults(b)] : NetworkCost(e) <= b}

PersistenceCost(e) ==
    SourceCost(e.run_keys) + SourceCost(e.startup) + SourceCost(e.services)
        + SourceCost(e.tasks)
\* collect_registry_run_keys and collect_startup_folder_entries return Ok
\* whatever they meet; the Services key and schtasks may fail.
PersistenceEnvs(b) ==
    {e \in [run_keys : {Yields(k) : k \in 0..b}, startup : {Yields(k) : k \in 0..b},
            services : SourceResults(b), tasks : SourceResults(b)] :
        PersistenceCost(e) <= b}

EventLogCost(e) ==
    SourceCost(e.security) + SourceCost(e.system) + SourceCost(e.application)
EventLogEnvs(b) ==
    {e \in [security : SourceResults(b), system : SourceResults(b),
            application : SourceResults(b)] : EventLogCost(e) <= b}

DirCost(d) == IF d.exists THEN 1 + Len(d.walk) ELSE 0
DirEnvs(b) ==
    {[exists |-> FALSE, walk |-> <<>>]}
    \cup (IF b >= 1
          THEN {[exists |-> TRUE, walk |-> w] : w \in SeqsUpTo(WalkEntry, b - 1)}
          ELSE {})
PrefetchEnvs(b) ==
    UNION {{<<d1, d2>> : d2 \in DirEnvs(b - DirCost(d1))} : d1 \in DirEnvs(b)}

CacheCost(c) ==
    CASE c.state = "absent" -> 0 [] c.state = "invalid" -> 1 [] c.state = "parsed" -> 1 + c.n
CacheEnvs(b) ==
    {[state |-> "absent", n |-> 0]}
    \cup (IF b >= 1
          THEN {[state |-> "invalid", n |-> 0]}
               \cup {[state |-> "parsed", n |-> k] : k \in 0..(b - 1)}
          ELSE {})
KeyCost(k) == IF k.opened THEN 1 + CacheCost(k.cache) + Len(k.values) ELSE 0
ClosedKey == [opened |-> FALSE, cache |-> [state |-> "absent", n |-> 0], values |-> <<>>]
KeyEnvs(b) ==
    {ClosedKey}
    \cup (IF b >= 1
          THEN UNION {{[opened |-> TRUE, cache |-> c, values |-> v] :
                          v \in SeqsUpTo(ValueKind, b - 1 - CacheCost(c))} :
                      c \in CacheEnvs(b - 1)}
          ELSE {})
ShimcacheEnvs(b) ==
    UNION {UNION {UNION {{<<k1, k2, k3, k4>> :
                            k4 \in KeyEnvs(b - KeyCost(k1) - KeyCost(k2) - KeyCost(k3))} :
                         k3 \in KeyEnvs(b - KeyCost(k1) - KeyCost(k2))} :
                  k2 \in KeyEnvs(b - KeyCost(k1))} :
           k1 \in KeyEnvs(b)}

\* What write_output_file meets: the parent directory exists, is created or
\* cannot be created; the write succeeds, fails, cannot be verified
\* (fs::metadata fails) or leaves a file of another size.
WriteEnvs ==
    {[parent |-> "exists", write |-> w] : w \in {"ok", "fails", "unverifiable", "short"}}
    \cup {[parent |-> "created", write |-> w] : w \in {"ok", "fails", "unverifiable", "short"}}
    \cup {[parent |-> "cannot_create", write |-> "none"]}

\* Faulty variant of write_output_file: the size of the written file is not compared.
write_output_file_unverified(w) ==
    IF w.parent = "cannot_create" THEN Err("SystemApiError")
    ELSE IF w.write = "fails" THEN Err("SystemApiError")
    ELSE IF w.write = "unverifiable" THEN Err("SystemApiError")
    ELSE Ok("written")

\* write_output_file: Ok(()) or the error it returns.
write_output_file(w) ==
    IF w.parent = "cannot_create" THEN Err("SystemApiError")
    ELSE IF w.write = "fails" THEN Err("SystemApiError")
    ELSE IF w.write = "unverifiable" THEN Err("SystemApiError")
    ELSE IF w.write = "short" THEN Err("InvalidData")
    ELSE Ok("written")

\* What is at the output path when write_output_file has returned.
file_after_write(w) ==
    CASE w.parent = "cannot_create" -> {"none"}
      [] w.write = "fails"          -> {"none", "partial"}
      [] w.write = "unverifiable"   -> {"json"}
      [] w.write = "short"          -> {"partial"}
      [] OTHER                      -> {"json"}

\* Faulty variant of NextStep: network before processes.
NextStep_swapped(step) ==
    CASE step = "start"       -> "system_info"
      [] step = "system_info" -> "network"
      [] step = "network"     -> "processes"
      [] step = "processes"   -> "persistence"
      [] step = "persistence" -> "event_logs"
      [] step = "event_logs"  -> "prefetch"
      [] step = "prefetch"    -> "shimcache"
      [] step = "shimcache"   -> "finalize"
      [] step = "finalize"    -> "output"
      [] step = "output"      -> "exited"

\* The order of the steps of main.
NextStep(step) ==
    CASE step = "start"       -> "system_info"
      [] step = "system_info" -> "processes"
      [] step = "processes"   -> "network"
      [] step = "network"     -> "persistence"
      [] step = "persistence" -> "event_logs"
      [] step = "event_logs"  -> "prefetch"
      [] step = "prefetch"    -> "shimcache"
      [] step = "shimcache"   -> "finalize"
      [] step = "finalize"    -> "output"
      [] step = "output"      -> "exited"

\* logger.info / warn / error called for each of `before`, then the
\* collector's own entries `local` added to collection_log, then the logger
\* called for each of `after`; `prints` lines go to standard output when
\* verbose, and Logger::log echoes each of its entries to standard error.
MainRecords(before, local, after) ==
    /\ entries' = Logger_log_all(
                     Logger_log_all(entries, before, clock, max_entries),
                     after, clock + Len(before) + Len(local), max_entries)
    /\ collection_log' = add_logs(collection_log, local, clock + Len(before))
    /\ clock' = clock + Len(before) + Len(local) + Len(after)
    /\ UNCHANGED <<max_entries, mutex, tpc, tentry, sent, appended, reader>>
    /\ UNCHANGED <<helper_vars, record_vars>>

MainLogs(before, local, after, prints) ==
    /\ MainRecords(before, local, after)
    /\ stdout_text' = stdout_text + (IF verbose THEN prints ELSE 0)
    /\ stderr_text' = stderr_text + (IF verbose THEN Len(before) + Len(after) ELSE 0)

\* main, lines 92-130: what the logger is told before the collection starts
\* (USB_DRIVE_LETTER and PORTABLE_OUTPUT_DIR taken as unset).
StartupEntries(v, o, h) ==
    <<<<"INFO", <<"TriageIR CLI started", 0>>>>>>
    \o (IF h.portable THEN <<<<"INFO", <<"Running in PORTABLE MODE", 0>>>>>> ELSE <<>>)
    \o <<<<"INFO", <<"Target system", 0>>>>,
         <<"INFO", <<"OS Version", 0>>>>,
         <<"INFO", <<"Current user", 0>>>>,
         <<"INFO", <<"Verbose mode", BoolCost(v)>>>>,
         <<"INFO", <<"Output format", 0>>>>,
         <<"INFO", <<IF o THEN "Output file" ELSE "Output: stdout", 0>>>>>>

\* main, lines 67-142: the arguments, the logger, the scan results.
MainStart(v, o, h) ==
    /\ pc = "start"
    /\ BoolCost(~h.computername) + BoolCost(~h.username) + BoolCost(h.portable) <= Budget
    /\ used' = used + BoolCost(~h.computername) + BoolCost(~h.username) + BoolCost(h.portable)
    /\ verbose' = v
    /\ output_file' = o
    /\ host' = h
    /\ LET started == StartupEntries(v, o, h)
       IN  /\ MainRecords(started, <<>>, <<>>)
           /\ stdout_text' = stdout_text + (IF v THEN 8 ELSE 0)
           /\ stderr_text' = stderr_text + (IF v THEN Len(started) ELSE 0)
    /\ pc' = NextStep(pc)
    /\ UNCHANGED <<invoked, artifact_vars, result_vars>>

\* main, lines 144-176, with collect_system_info_safe.
CollectSystemInfo(clock_ok) ==
    /\ pc = "system_info"
    /\ BoolCost(~clock_ok) <= Budget
    /\ used' = used + BoolCost(~clock_ok)
    /\ invoked' = Append(invoked, "system-info")
    /\ LET r == system_info_operation(host.computername, host.username, clock_ok)
           got == graceful_value(r)
       IN  /\ system_info' = IF got.some THEN "collected" ELSE "defaults"
           /\ MainLogs((IF r.ok THEN <<>>
                        ELSE <<<<graceful_level(r.kind), <<"error in system_info_collection", 0>>>>>>)
                       \o (IF got.some
                           THEN <<<<"INFO", <<"System information collected successfully", 0>>>>>>
                           ELSE <<<<"ERROR", <<"Failed to collect system information, using defaults", 0>>>>>>),
                       <<>>, <<>>, 2)
    /\ pc' = NextStep(pc)
    /\ UNCHANGED <<verbose, output_file, host, processes, network_connections,
                   persistence_mechanisms, event_logs, prefetch_files,
                   shimcache_entries, result_vars>>

\* main, lines 178-216.
CollectProcesses(procs) ==
    /\ pc = "processes"
    /\ used' = used + Len(procs)
    /\ invoked' = Append(invoked, "processes")
    /\ LET got == collect_processes(procs)
       IN  /\ processes' = got.items
           /\ MainLogs(<<<<"INFO", <<"Starting process enumeration", 0>>>>>>,
                       got.logs,
                       <<<<"INFO", <<"Process enumeration completed", Len(got.items)>>>>>>, 2)
    /\ pc' = NextStep(pc)
    /\ UNCHANGED <<verbose, output_file, host, system_info, network_connections,
                   persistence_mechanisms, event_logs, prefetch_files,
                   shimcache_entries, result_vars>>

\* main, lines 218-247.
CollectNetwork(env) ==
    /\ pc = "network"
    /\ used' = used + NetworkCost(env)
    /\ invoked' = Append(invoked, "network")
    /\ LET got == collect_network_connections(env)
       IN  /\ network_connections' = got.items
           /\ MainLogs(<<<<"INFO", <<"Starting network connection enumeration", 0>>>>>>,
                       got.logs,
                       <<<<"INFO", <<"Network enumeration completed", Len(got.items)>>>>>>, 2)
    /\ pc' = NextStep(pc)
    /\ UNCHANGED <<verbose, output_file, host, system_info, processes,
                   persistence_mechanisms, event_logs, prefetch_files,
                   shimcache_entries, result_vars>>

\* main, lines 249-276.
CollectPersistence(env) ==
    /\ pc = "persistence"
    /\ used' = used + PersistenceCost(env)
    /\ invoked' = Append(invoked, "persistence")
    /\ LET got == collect_persistence_mechanisms(env)
       IN  /\ persistence_mechanisms' = got.items
           /\ MainLogs(<<<<"INFO", <<"Starting persistence mechanism detection", 0>>>>>>,
                       got.logs,
                       <<<<"INFO", <<"Persistence detection completed", Len(got.items)>>>>>>, 2)
    /\ pc' = NextStep(pc)
    /\ UNCHANGED <<verbose, output_file, host, system_info, processes,
                   network_connections, event_logs, prefetch_files,
                   shimcache_entries, result_vars>>

\* main, lines 278-324.
CollectEventLogs(env) ==
    /\ pc = "event_logs"
    /\ used' = used + EventLogCost(env)
    /\ invoked' = Append(invoked, "event-logs")
    /\ LET got == collect_event_logs(env)
       IN  /\ event_logs' = got.items
           /\ MainLogs(<<<<"INFO", <<"Starting event log collection", 0>>>>>>,
                       got.logs,
                       <<<<"INFO", <<"Event log collection completed",
                                     total_entries(got.items)>>>>>>, 2)
    /\ pc' = NextStep(pc)
    /\ UNCHANGED <<verbose, output_file, host, system_info, processes,
                   network_connections, persistence_mechanisms, prefetch_files,
                   shimcache_entries, result_vars>>

\* main, lines 326-371.
CollectPrefetch(dirs) ==
    /\ pc = "prefetch"
    /\ used' = used + DirCost(dirs[1]) + DirCost(dirs[2])
    /\ invoked' = Append(invoked, "prefetch")
    /\ LET got == collect_prefetch_files(dirs)
       IN  /\ prefetch_files' = got.items
           /\ MainLogs(<<<<"INFO", <<"Starting execution evidence collection", 0>>>>>>,
                       [i \in 1..Len(got.logs) |-> AuditToLog(got.logs[i])],
                       <<<<"INFO", <<"Prefetch analysis completed", Len(got.items)>>>>>>, 3)
    /\ pc' = NextStep(pc)
    /\ UNCHANGED <<verbose, output_file, host, system_info, processes,
                   network_connections, persistence_mechanisms, event_logs,
                   shimcache_entries, result_vars>>

\* main, lines 373-401, when collect_shimcache_entries returns.
CollectShimcache(keys) ==
    /\ pc = "shimcache"
    /\ ~collect_shimcache_entries(keys).panics
    /\ used' = used + KeyCost(keys[1]) + KeyCost(keys[2]) + KeyCost(keys[3]) + KeyCost(keys[4])
    /\ invoked' = Append(invoked, "shimcache")
    /\ LET got == collect_shimcache_entries(keys)
       IN  /\ shimcache_entries' = got.items
           /\ MainLogs(<<>>,
                       [i \in 1..Len(got.logs) |-> AuditToLog(got.logs[i])],
                       <<<<"INFO", <<"Shimcache analysis completed", Len(got.items)>>>>>>, 3)
    /\ pc' = NextStep(pc)
    /\ UNCHANGED <<verbose, output_file, host, system_info, processes,
                   network_connections, persistence_mechanisms, event_logs,
                   prefetch_files, result_vars>>

\* main, line 377, when collect_shimcache_entries panics (shimcache.rs:118):
\* the thread unwinds out of main and the process ends with code 101.
ShimcachePanics(keys) ==
    /\ pc = "shimcache"
    /\ collect_shimcache_entries(keys).panics
    /\ used' = used + KeyCost(keys[1]) + KeyCost(keys[2]) + KeyCost(keys[3]) + KeyCost(keys[4])
    /\ invoked' = Append(invoked, "shimcache")
    /\ MainRecords(<<>>, <<>>, <<>>)
    /\ stdout_text' = stdout_text + (IF verbose THEN 1 ELSE 0)
    /\ stderr_text' = stderr_text + 1
    /\ pc' = "panicked"
    /\ exit_code' = Some(101)
    /\ UNCHANGED <<verbose, output_file, host, artifact_vars, total_artifacts,
                   log_summary, report, stdout_json, out_file>>

\* Faulty variant of final_exit_code: the errors of one failed step (two
\* entries) are let through.
final_exit_code_lenient(summary) ==
    IF summary.error_count > 2 THEN 2 ELSE 0

\* main, lines 536-539: the exit code of a scan whose report went out, from
\* the summary taken at line 410.
final_exit_code(summary) ==
    IF summary.error_count > 0 THEN 2 ELSE 0

\* main, lines 403-482: the totals, the summary, the report.
Finalize ==
    /\ pc = "finalize"
    /\ LET total == count_artifacts(processes, network_connections,
                                    persistence_mechanisms, total_entries(event_logs),
                                    prefetch_files, shimcache_entries)
           before == <<<<"INFO", <<"Scan completed", 0>>>>,
                       <<"INFO", <<"Total artifacts collected", total>>>>>>
           summary == Logger_get_summary(Logger_log_all(entries, before, clock, max_entries))
           after == <<<<"INFO", <<"Collection summary", summary.total_count>>>>>>
           logged == Logger_log_all(entries, before \o after, clock, max_entries)
           full_log == collection_log \o Logger_get_entries(logged)
       IN  /\ total_artifacts' = total
           /\ log_summary' = summary
           /\ entries' = logged
           /\ clock' = clock + 3
           /\ collection_log' = full_log
           /\ stdout_text' = stdout_text
                 + (IF verbose
                    THEN 14 + BoolCost(summary.error_count > 0) + BoolCost(summary.warn_count > 0)
                    ELSE 0)
           /\ stderr_text' = stderr_text + (IF verbose THEN 3 ELSE 0)
           /\ report' =
                 [built |-> TRUE,
                  scan_metadata |->
                     [total_artifacts |-> total,
                      collection_summary |->
                         [total_logs    |-> summary.total_count,
                          error_count   |-> summary.error_count,
                          warning_count |-> summary.warn_count,
                          success_rate  |-> success_rate(summary)]],
                  artifacts |->
                     [system_info |-> system_info,
                      running_processes |-> processes,
                      network_connections |-> network_connections,
                      persistence_mechanisms |-> persistence_mechanisms,
                      event_logs |-> event_logs,
                      execution_evidence |->
                         [prefetch_files |-> prefetch_files,
                          shimcache_entries |-> shimcache_entries]],
                  collection_log |-> full_log]
    /\ pc' = NextStep(pc)
    /\ UNCHANGED <<max_entries, mutex, tpc, tentry, sent, appended, reader>>
    /\ UNCHANGED <<helper_vars, record_vars>>
    /\ UNCHANGED <<verbose, output_file, host, used, invoked, artifact_vars,
                   stdout_json, out_file, exit_code>>

\* main, lines 484-541: the report goes to standard output.
EmitToStdout ==
    /\ pc = "output"
    /\ ~output_file
    /\ stdout_json' = stdout_json + 1
    /\ MainLogs(<<>>, <<>>, <<>>, 1)
    /\ exit_code' = Some(final_exit_code(log_summary))
    /\ pc' = NextStep(pc)
    /\ UNCHANGED <<verbose, output_file, host, used, invoked, artifact_vars,
                   total_artifacts, log_summary, report, out_file>>

\* main, lines 484-541, with write_output_file: the report goes to the file.
EmitToFile(w) ==
    /\ pc = "output"
    /\ output_file
    /\ LET r == write_output_file(w)
           inside == <<<<"INFO", <<"Writing output to file", 0>>>>>>
                     \o (IF w.parent # "exists"
                         THEN <<<<"INFO", <<"Creating parent directory", 0>>>>>> ELSE <<>>)
                     \o (IF r.ok THEN <<<<"INFO", <<"Successfully wrote bytes", 0>>>>>> ELSE <<>>)
       IN  /\ out_file' \in file_after_write(w)
           /\ IF r.ok
              THEN /\ MainRecords(inside \o <<<<"INFO", <<"Results written to file", 0>>>>>>,
                                  <<>>, <<>>)
                   /\ stdout_text' = stdout_text + (IF verbose THEN 7 ELSE 0)
                   /\ stderr_text' = stderr_text
                         + (IF verbose THEN Len(inside) + 1
                            ELSE 2 + BoolCost(log_summary.error_count > 0
                                              \/ log_summary.warn_count > 0))
                   /\ exit_code' = Some(final_exit_code(log_summary))
              ELSE /\ MainRecords(inside \o <<<<"ERROR", <<"Failed to write output file", 0>>>>>>,
                                  <<>>, <<>>)
                   /\ stdout_text' = stdout_text + (IF verbose THEN 1 ELSE 0)
                   /\ stderr_text' = stderr_text + 1 + (IF verbose THEN Len(inside) + 1 ELSE 0)
                   /\ exit_code' = Some(1)
    /\ pc' = NextStep(pc)
    /\ UNCHANGED <<verbose, output_file, host, used, invoked, artifact_vars,
                   total_artifacts, log_summary, report, stdout_json>>

Init == InitLoggerVars(DefaultMaxEntries) /\ InitHelperVars /\ InitMainVars /\ InitRecordVars

Next ==
    \/ \E v \in BOOLEAN, o \in BOOLEAN,
          h \in [computername : BOOLEAN, username : BOOLEAN, portable : BOOLEAN] :
          MainStart(v, o, h)
    \/ \E clock_ok \in BOOLEAN : CollectSystemInfo(clock_ok)
    \/ \E procs \in ProcessEnvs(Budget) : CollectProcesses(procs)
    \/ \E env \in NetworkEnvs(Budget) : CollectNetwork(env)
    \/ \E env \in PersistenceEnvs(Budget) : CollectPersistence(env)
    \/ \E env \in EventLogEnvs(Budget) : CollectEventLogs(env)
    \/ \E dirs \in PrefetchEnvs(Budget) : CollectPrefetch(dirs)
    \/ \E keys \in ShimcacheEnvs(Budget) : CollectShimcache(keys)
    \/ \E keys \in ShimcacheEnvs(Budget) : ShimcachePanics(keys)
    \/ Finalize
    \/ EmitToStdout
    \/ \E w \in WriteEnvs : EmitToFile(w)

Spec == Init /\ [][Next]_vars

(***************************************************************************)
(* Properties of the logger (SpecLogger)                                   *)
(***************************************************************************)
LastN(s, n) == SubSeq(s, Len(s) - n + 1, Len(s))

\* Log calls of thread t whose entry has reached the queue.
Pushed(t) == sent[t] - (IF tpc[t] = "idle" THEN 0 ELSE 1)

TotalPushed == SumSent([t \in Threads |-> Pushed(t)], NumThreads)

Messages(q) == [i \in 1..Len(q) |-> q[i].message]

\* C5: after n appends get_entries returns exactly the last min(n, capacity)
\* appended entries, in the order they were appended, and the queue never
\* holds more than the capacity.
C5_LastEntriesKept ==
    /\ Len(entries) <= max_entries
    /\ entries = LastN(appended, Min(Len(appended), max_entries))
    /\ reader.op = "get_entries" =>
          reader.result = LastN(reader.history, Min(Len(reader.history), max_entries))

\* A snapshot taken after the queue has overflowed.
C5_Witness ==
    /\ reader.op = "get_entries"
    /\ Len(reader.history) > max_entries
    /\ Len(reader.result) = max_entries

C9_SummaryConsistent ==
    reader.op = "get_summary" =>
        LET s == reader.result
            r == success_rate(s)
        IN  /\ s.total_count = Len(reader.seen)
            /\ s.total_count = s.info_count + s.warn_count + s.error_count + s.other_count
            /\ s.error_count <= s.total_count
            /\ s.error_count = Cardinality({i \in 1..Len(reader.seen) : reader.seen[i].level = "ERROR"})
            /\ r.den > 0
            /\ IF s.total_count = 0
               THEN r.num = 100 * r.den
               ELSE r.num * s.total_count = 100 * (s.total_count - s.error_count) * r.den

\* A summary taken after overflow: an ERROR was evicted, another is counted.
C9_Witness ==
    /\ reader.op = "get_summary"
    /\ reader.result.error_count > 0
    /\ Len(reader.history) > max_entries
    /\ reader.history[1].level = "ERROR"

(***************************************************************************)
(* Properties of the helpers (SpecHelpers)                                 *)
(***************************************************************************)
\* The attempt i of this call is one at which retry_operation stops.
StopsAt(i) ==
    \/ outcomes[i].ok
    \/ outcomes[i].kind \notin {"NetworkError", "Timeout"}
    \/ i = max_attempts

\* C7: for max_attempts >= 1 retry_operation stops at the first attempt that
\* returns Ok, or an error that is neither NetworkError nor Timeout, or is
\* attempt number max_attempts; it returns that attempt's result, has invoked
\* the operation that many times and has logged one "retrying" WARN for each
\* earlier attempt.
C7_RetryStopsAtFirst ==
    (hpc = "retry_done" /\ max_attempts >= 1) =>
        LET n == Len(outcomes)
        IN  /\ n >= 1
            /\ StopsAt(n)
            /\ \A i \in 1..(n - 1) : ~StopsAt(i)
            /\ helper_out = outcomes[n]
            /\ SelectSeq(call_log, LAMBDA it : it[1] = "WARN")
                  = [i \in 1..(n - 1) |-> <<"WARN", <<"retrying", i>>>>]

\* Two retryable failures, then success on the third attempt.
C7_Witness ==
    /\ hpc = "retry_done"
    /\ Len(outcomes) = 3
    /\ helper_out.ok
    /\ Len(call_log) = 3

\* C29: retry_operation called with max_attempts = 0 never invokes the
\* operation, appends no log entry, and returns an error of kind Unknown.
C29_ZeroAttempts ==
    (hpc \in {"retry_loop", "retry_done"} /\ max_attempts = 0) =>
        /\ outcomes = <<>>
        /\ call_log = <<>>
        /\ entries = <<>>
        /\ hpc = "retry_done" => helper_out = Err("Unknown")

\* retry_operation has returned from a call with max_attempts = 0.
C29_Witness ==
    /\ hpc = "retry_done"
    /\ max_attempts = 0
    /\ ~helper_out.ok

\* The kinds of the errors the helpers were handed in this call.
KindsSeen ==
    {outcomes[i].kind : i \in {j \in 1..Len(outcomes) : ~outcomes[j].ok}}
        \cup (IF hpc = "graceful_done" /\ ~helper_in.ok THEN {helper_in.kind} ELSE {})

\* C30: is_fatal holds exactly for SystemApiError and InvalidData,
\* is_retryable holds exactly for NetworkError and Timeout, and no kind is
\* both fatal and retryable.
C30_ErrorClassification ==
    \A kind \in KindsSeen :
        /\ is_fatal(kind) <=> kind \in {"SystemApiError", "InvalidData"}
        /\ is_retryable(kind) <=> kind \in {"NetworkError", "Timeout"}
        /\ ~(is_fatal(kind) /\ is_retryable(kind))

\* A retryable failure (Timeout) was followed by a fatal one (InvalidData).
C30_Witness ==
    /\ hpc = "retry_done"
    /\ Len(outcomes) = 2
    /\ ~outcomes[1].ok /\ outcomes[1].kind = "Timeout"
    /\ ~outcomes[2].ok /\ outcomes[2].kind = "InvalidData"
    /\ call_log = <<<<"WARN", <<"retrying", 1>>>>>>

\* C8: handle_error_gracefully returns the value and logs nothing on Ok; on
\* Err it returns None and logs exactly one entry, at ERROR for
\* SystemApiError and InvalidData and at WARN for every other kind.
C8_GracefulDegradation ==
    hpc = "graceful_done" =>
        IF helper_in.ok
        THEN /\ helper_out = Some(helper_in.value)
             /\ call_log = <<>>
             /\ entries = <<>>
        ELSE /\ helper_out = None
             /\ Len(call_log) = 1
             /\ Len(entries) = 1
             /\ entries[1].level = call_log[1][1]
             /\ call_log[1][1] = (IF helper_in.kind \in {"SystemApiError", "InvalidData"}
                                  THEN "ERROR" ELSE "WARN")

\* A non-fatal failure handled: one WARN, no value.
C8_Witness ==
    /\ hpc = "graceful_done"
    /\ ~helper_in.ok
    /\ helper_in.kind = "AccessDenied"
    /\ entries[1].level = "WARN"

(***************************************************************************)
(* Properties of main (Spec)                                               *)
(***************************************************************************)
HasError(log) == \E i \in 1..Len(log) : log[i].level = "ERROR"

\* The scan has completed and its report was written successfully.
Emitted ==
    /\ pc = "exited"
    /\ exit_code # Some(1)
    /\ stdout_json = 1 \/ out_file = "json"

\* C1, as stated: whenever a scan completes and its report is written
\* successfully, the exit code is 2 if the emitted collection_log holds at
\* least one ERROR entry, whether the logger or a collector's own log
\* produced it, and 0 otherwise.
C1_ExitCodeFollowsCollectionLog ==
    Emitted => exit_code = Some(IF HasError(report.collection_log) THEN 2 ELSE 0)

\* The three failures of the write that claim C2 names.
WriteFails(w) == w.parent = "cannot_create" \/ w.write \in {"fails", "short"}

C3_ScanNeverAborted ==
    exit_code.some => (pc = "exited" /\ report.built)

CollectorOrder ==
    <<"system-info", "processes", "network", "persistence", "event-logs",
      "prefetch", "shimcache">>

\* C4: the collectors are invoked once each in the order system-info,
\* processes, network, persistence, event-logs, prefetch, shimcache, whatever
\* the earlier ones returned; none is invoked again.
C4_CollectorsOnceInOrder ==
    /\ Len(invoked) <= Len(CollectorOrder)
    /\ invoked = SubSeq(CollectorOrder, 1, Len(invoked))
    /\ pc \in {"finalize", "output", "exited"} => invoked = CollectorOrder

\* C4 witness: a scan has ended in which an early collector failed.
C4_Witness ==
    /\ pc = "exited"
    /\ system_info = "defaults"
    /\ HasError(collection_log)
    /\ invoked = CollectorOrder

\* C10: total_artifacts of the report is the number of processes plus
\* connections plus persistence mechanisms plus Security, System and
\* Application events plus prefetch files plus shimcache entries.
C10_TotalArtifacts ==
    report.built =>
        report.scan_metadata.total_artifacts =
            Len(report.artifacts.running_processes)
            + Len(report.artifacts.network_connections)
            + Len(report.artifacts.persistence_mechanisms)
            + Len(report.artifacts.event_logs.security)
            + Len(report.artifacts.event_logs.system)
            + Len(report.artifacts.event_logs.application)
            + Len(report.artifacts.execution_evidence.prefetch_files)
            + Len(report.artifacts.execution_evidence.shimcache_entries)

\* C10 witness: a report that counts execution evidence.
C10_Witness ==
    /\ report.built
    /\ Len(report.artifacts.execution_evidence.shimcache_entries) >= 1
    /\ report.scan_metadata.total_artifacts >= 1

\* C11, as stated: every entry of the emitted collection_log has level INFO,
\* WARN or ERROR, whichever collectors contributed entries, the entries
\* converted from prefetch and shimcache audit records included.
C11_LevelsInfoWarnError ==
    report.built =>
        \A i \in 1..Len(report.collection_log) :
            report.collection_log[i].level \in LogLevel

\* C12, as stated: every log entry a collector returns is copied into the
\* logger, so that in the emitted report collection_summary.total_logs,
\* error_count and warning_count are the numbers of collection_log entries in
\* total, at ERROR level and at WARN level.
C12_SummaryCountsCollectionLog ==
    report.built =>
        /\ report.scan_metadata.collection_summary.total_logs
              = Len(report.collection_log)
        /\ report.scan_metadata.collection_summary.error_count
              = CountLevel(report.collection_log, "ERROR")
        /\ report.scan_metadata.collection_summary.warning_count
              = CountLevel(report.collection_log, "WARN")

\* C13, as stated: two runs that differ only in the verbose flag produce the
\* same machine-readable output: the logger stores the entries the run
\* without the flag stores, and the destination of the JSON (standard output
\* when no file is given) receives nothing but the JSON report.
C13_VerboseLeavesOutputAlone ==
    /\ pc # "start" =>
          LET quiet == StartupEntries(FALSE, output_file, host)
          IN  Messages(SubSeq(entries, 1, Len(quiet)))
                 = [i \in 1..Len(quiet) |-> quiet[i][2]]
    /\ (pc = "exited" /\ ~output_file) => stdout_text = 0

\* C14: for every emitted process sha256_hash is "N/A" exactly when the
\* process exposes no executable path, "ERROR" exactly when a path existed
\* but the file could not be read or hashed, and otherwise a digest of 64
\* lower-case hexadecimal characters.
C14_Sha256Hash ==
    report.built =>
        \A i \in 1..Len(report.artifacts.running_processes) :
            LET p == report.artifacts.running_processes[i]
                h == p.sha256_hash
            IN  /\ (h = NotAvailable) <=> (p.exe = "no_path")
                /\ (h = HashError) <=> (p.exe = "unreadable")
                /\ (p.exe = "readable") =>
                      /\ Len(h) = 64
                      /\ \A k \in 1..64 : \E d \in 1..16 : h[k] = HexDigits[d]

\* C14 witness: a report with a process of each of two kinds, one without a
\* path and one whose executable was hashed.
C14_Witness ==
    /\ report.built
    /\ \E i, j \in 1..Len(report.artifacts.running_processes) :
          /\ report.artifacts.running_processes[i].exe = "no_path"
          /\ report.artifacts.running_processes[j].exe = "readable"
          /\ Len(report.artifacts.running_processes[j].sha256_hash) = 64

\* The host shows nothing beyond a bare host but the unset variables.
OnlyVariablesUnset ==
    /\ ~host.computername \/ ~host.username
    /\ used = BoolCost(~host.computername) + BoolCost(~host.username)

\* C20, as stated: if COMPUTERNAME or USERNAME is unset, system-info
\* collection still succeeds; the absence alone is not reported as a
\* collection error (no ERROR entry is logged for it) and does not change the
\* exit code, which stays the 0 of a scan of a bare host.
C20_UnsetVariablesAreNotErrors ==
    (OnlyVariablesUnset /\ pc \notin {"start", "system_info"}) =>
        /\ system_info = "collected"
        /\ ~HasError(entries)
        /\ Emitted => exit_code = Some(0)

\* The entries of log are in the order they were produced.
InProducedOrder(log) ==
    \A i, j \in 1..Len(log) : i < j => log[i].timestamp < log[j].timestamp

\* log is `local` entries, none of them an entry of the logger's queue q,
\* followed by the whole of q.
LocalThenLogger(log, q) ==
    /\ Len(log) >= Len(q)
    /\ SubSeq(log, Len(log) - Len(q) + 1, Len(log)) = q
    /\ \A i \in 1..(Len(log) - Len(q)) :
          \A j \in 1..Len(q) : q[j].timestamp # log[i].timestamp

\* C21: in the collection_log of the report the collector-local entries come
\* first, in the order the collectors were invoked and produced them, and the
\* logger's entries follow in insertion order; no logger entry precedes a
\* collector-local entry.  (Read when the report is built, before the output
\* step tells the logger anything more.)
C21_LocalEntriesThenLogger ==
    (pc = "output" /\ report.built) =>
        /\ LocalThenLogger(report.collection_log, entries)
        /\ InProducedOrder(SubSeq(report.collection_log, 1,
                                  Len(report.collection_log) - Len(entries)))
        /\ InProducedOrder(entries)

\* C21 witness: a built report in which two collectors left entries of their
\* own, and a logger entry older than a collector-local entry stands after it.
C21_Witness ==
    /\ pc = "output" /\ report.built
    /\ LET log == report.collection_log
           n == Len(log) - Len(entries)
       IN  /\ \E i, j \in 1..n : log[i].message[1] # log[j].message[1]
                                  /\ log[i].timestamp + 3 < log[j].timestamp
           /\ \E i \in 1..n, j \in (n + 1)..Len(log) : log[j].timestamp < log[i].timestamp

\* The entries of the logger's queue q made before (after) the ticket t.
MadeBefore(q, t) == SelectSeq(q, LAMBDA e : e.timestamp < t)
MadeAfter(q, t) == SelectSeq(q, LAMBDA e : e.timestamp > t)

\* The ticket of the last entry of the report: the "Collection summary"
\* entry, logged right after the summary was taken and before the report
\* was serialized.
SerializedAt == report.collection_log[Len(report.collection_log)].timestamp

\* C28: the emitted report and the choice between exit code 0 and 2 depend
\* only on logger state captured before serialization: entries appended to
\* the logger afterwards (output-writing progress messages, the ERROR for a
\* failed write) never appear in collection_log, never change
\* collection_summary and never turn an exit code 0 into 2.
C28_LaterEntriesLeaveReportAlone ==
    (pc = "exited" /\ report.built) =>
        LET captured == MadeBefore(entries, SerializedAt)
            later == MadeAfter(entries, SerializedAt)
            summary == report.scan_metadata.collection_summary
        IN  /\ \A i \in 1..Len(later) : \A j \in 1..Len(report.collection_log) :
                  report.collection_log[j] # later[i]
            /\ summary.total_logs = Len(captured)
            /\ summary.error_count = CountLevel(captured, "ERROR")
            /\ summary.warning_count = CountLevel(captured, "WARN")
            /\ exit_code \in {Some(1), Some(IF CountLevel(captured, "ERROR") > 0 THEN 2 ELSE 0)}

\* C28 witness: the write of the report failed and the logger was told so at
\* ERROR after the report was serialized, while the scan itself had no error.
C28_Witness ==
    /\ pc = "exited" /\ report.built
    /\ HasError(MadeAfter(entries, SerializedAt))
    /\ ~HasError(MadeBefore(entries, SerializedAt))
    /\ report.scan_metadata.collection_summary.error_count = 0
    /\ exit_code = Some(1)

\* parse_shimcache_data, line 178: the most entries read from one
\* AppCompatCache value.
ShimcacheEntryLimit == 1000

\* C25, as stated: the number of shimcache entries in a report never exceeds
\* 1000, and every emitted entry was decoded from AppCompatCache data at or
\* after offset 16.
C25_ShimcacheEntriesFromCacheData ==
    report.built =>
        LET sc == report.artifacts.execution_evidence.shimcache_entries
        IN  /\ Len(sc) <= ShimcacheEntryLimit
            /\ \A i \in 1..Len(sc) : sc[i].source = "shimcache"

(***************************************************************************)
(* SpecRecords: the collection functions one at a time, each on a small    *)
(* input, with what main puts in the report of its result.  Strings whose  *)
(* characters are looked at are sequences of characters.                   *)
(***************************************************************************)
\* The most processes of a process table given to collect_processes alone.
MaxProcesses == 6

\* The most records and failures the four persistence sub-collectors return
\* together when collect_persistence_mechanisms is applied alone.
MaxMechanisms == 5

\* The most entries the walk of one prefetch directory returns when
\* collect_prefetch_files is applied alone.
MaxPrefetchEntries == 2

\* The most entries of an AppCompatCache buffer whose fields are given one
\* by one.
MaxCacheFields == 2

\* The most services under the Services key, and the most rows of schtasks.
MaxServices == 2
MaxTasks == 2

\* The most values the run keys hold together.
MaxRunValues == 1

UpperCase == <<"A", "B", "C", "D", "E", "F", "G", "H", "I", "J", "K", "L", "M", "N", "O", "P", "Q", "R", "S", "T", "U", "V", "W", "X", "Y", "Z">>
LowerCase == <<"a", "b", "c", "d", "e", "f", "g", "h", "i", "j", "k", "l", "m", "n", "o", "p", "q", "r", "s", "t", "u", "v", "w", "x", "y", "z">>

\* str::to_lowercase
to_lowercase(s) ==
    [i \in 1..Len(s) |->
        IF \E k \in 1..Len(UpperCase) : s[i] = UpperCase[k]
        THEN LowerCase[CHOOSE k \in 1..Len(UpperCase) : s[i] = UpperCase[k]]
        ELSE s[i]]

\* str::contains
contains(s, p) ==
    \E i \in 0..(Len(s) - Len(p)) : SubSeq(s, i + 1, i + Len(p)) = p

\* is_mechanism_suspicious, lines 421-436: the three lists.
suspicious_locations ==
    <<<<"t", "e", "m", "p">>,
      <<"t", "m", "p">>,
      <<"a", "p", "p", "d", "a", "t", "a", "\\", "l", "o", "c", "a", "l", "\\", "t", "e", "m", "p">>,
      <<"d", "o", "w", "n", "l", "o", "a", "d", "s">>,
      <<"d", "e", "s", "k", "t", "o", "p">>,
      <<"d", "o", "c", "u", "m", "e", "n", "t", "s">>,
      <<"p", "u", "b", "l", "i", "c">>,
      <<"u", "s", "e", "r", "s", "\\", "p", "u", "b", "l", "i", "c">>,
      <<"p", "r", "o", "g", "r", "a", "m", "d", "a", "t", "a">>>>
suspicious_extensions ==
    <<<<".", "b", "a", "t">>,
      <<".", "c", "m", "d">>,
      <<".", "p", "s", "1">>,
      <<".", "v", "b", "s">>,
      <<".", "j", "s">>,
      <<".", "j", "a", "r">>,
      <<".", "s", "c", "r">>,
      <<".", "p", "i", "f">>>>
suspicious_patterns ==
    <<<<"p", "o", "w", "e", "r", "s", "h", "e", "l", "l">>,
      <<"c", "m", "d", ".", "e", "x", "e">>,
      <<"w", "s", "c", "r", "i", "p", "t">>,
      <<"c", "s", "c", "r", "i", "p", "t">>,
      <<"r", "e", "g", "s", "v", "r", "3", "2">>,
      <<"r", "u", "n", "d", "l", "l", "3", "2">>,
      <<"m", "s", "h", "t", "a">>,
      <<"b", "i", "t", "s", "a", "d", "m", "i", "n">>,
      <<"c", "e", "r", "t", "u", "t", "i", "l">>>>

\* is_mechanism_suspicious
is_mechanism_suspicious(mechanism) ==
    LET command_lower == to_lowercase(mechanism.command)
        any(list) == \E k \in 1..Len(list) : contains(command_lower, list[k])
    IN  any(suspicious_locations) \/ any(suspicious_extensions) \/ any(suspicious_patterns)

\* PersistenceType::as_str
PersistenceType_as_str(t) ==
    CASE t = "RegistryRunKey"   -> "Registry Run Key"
      [] t = "ScheduledTask"    -> "Scheduled Task"
      [] t = "Service"          -> "Windows Service"
      [] t = "StartupFolder"    -> "Startup Folder"
      [] t = "WMIEventConsumer" -> "WMI Event Consumer"

\* PersistenceMechanism::new
PersistenceMechanism_new(mechanism_type, name, command, source) ==
    [mechanism_type |-> mechanism_type, name |-> name, command |-> command,
     source |-> source, location |-> <<>>, value |-> <<>>, is_suspicious |-> FALSE]

\* hive_to_string
hive_to_string(hive) ==
    CASE hive = "HKEY_LOCAL_MACHINE"  -> "HKLM"
      [] hive = "HKEY_CURRENT_USER"   -> "HKCU"
      [] hive = "HKEY_CLASSES_ROOT"   -> "HKCR"
      [] hive = "HKEY_USERS"          -> "HKU"
      [] hive = "HKEY_CURRENT_CONFIG" -> "HKCC"
      [] OTHER                        -> "UNKNOWN"

\* collect_registry_run_keys, lines 82-89: run_key_paths.
run_key_paths ==
    <<[hive |-> "HKEY_LOCAL_MACHINE", path |-> "CurrentVersion\\Run"],
      [hive |-> "HKEY_LOCAL_MACHINE", path |-> "CurrentVersion\\RunOnce"],
      [hive |-> "HKEY_CURRENT_USER",  path |-> "CurrentVersion\\Run"],
      [hive |-> "HKEY_CURRENT_USER",  path |-> "CurrentVersion\\RunOnce"],
      [hive |-> "HKEY_LOCAL_MACHINE", path |-> "WOW6432Node\\CurrentVersion\\Run"],
      [hive |-> "HKEY_LOCAL_MACHINE", path |-> "WOW6432Node\\CurrentVersion\\RunOnce"]>>

\* The commands the values hold: an ordinary one, and one for each list of
\* is_mechanism_suspicious.
Commands ==
    {<<"C", ":", "\\", "A", "p", "p", "\\", "u", ".", "e", "x", "e">>,
     <<"P", "o", "w", "e", "r", "S", "h", "e", "l", "l", " ", "-", "e", "n", "c">>,
     <<"C", ":", "\\", "T", "e", "m", "p", "\\", "a", ".", "e", "x", "e">>,
     <<"C", ":", "\\", "A", "p", "p", "\\", "r", "u", "n", ".", "V", "B", "S">>}

\* A registry value: a string (REG_SZ) with its data, or data of another
\* type, which get_value::<String> refuses.
RunValues ==
    {[name |-> n, kind |-> "string", data |-> c] : n \in {"Updater", "Agent"}, c \in Commands}
    \cup {[name |-> "Blob", kind |-> "binary", data |-> <<>>]}

\* The values of key k of run_key_paths in a registry, which is a sequence
\* of <<key, value>>.
ValuesOf(reg, k) ==
    LET at == SelectSeq(reg, LAMBDA pl : pl[1] = k)
    IN  [i \in 1..Len(at) |-> at[i][2]]

\* Registries of at most n values, the names within a key distinct.
Registries(n) ==
    {reg \in SeqsUpTo((1..Len(run_key_paths)) \X RunValues, n) :
        \A i, j \in 1..Len(reg) :
            (i # j /\ reg[i][1] = reg[j][1]) => reg[i][2].name # reg[j][2].name}

\* collect_registry_run_keys
collect_registry_run_keys(reg) ==
    Concat([k \in 1..Len(run_key_paths) |->
        LET strings == SelectSeq(ValuesOf(reg, k), LAMBDA v : v.kind = "string")
        IN  [i \in 1..Len(strings) |->
                PersistenceMechanism_new(
                    PersistenceType_as_str("RegistryRunKey"),
                    strings[i].name, strings[i].data,
                    <<hive_to_string(run_key_paths[k].hive), run_key_paths[k].path>>)]])

\* main, lines 262-272: a mechanism as the report holds it.
persistence_json(p) ==
    [type |-> p.mechanism_type, name |-> p.name, command |-> p.command,
     source |-> p.source, location |-> p.location, value |-> p.value,
     is_suspicious |-> p.is_suspicious]

\* collect_registry_run_keys on a registry, and the records of the report.
EmitRunKeys(reg) ==
    /\ call = "none"
    /\ call' = "collect_registry_run_keys"
    /\ given' = reg
    /\ returned' = LET got == collect_registry_run_keys(reg)
                   IN  [i \in 1..Len(got) |-> persistence_json(got[i])]
    /\ UNCHANGED <<logger_vars, helper_vars, main_vars>>

\* C15, as stated: a string value found under the HKCU Run key yields exactly
\* one persistence record whose type is "Registry Run Key (User)", whose name
\* is the value name and whose command is the value data.
C15_UserRunKeyRecord ==
    call = "collect_registry_run_keys" =>
        \A i \in 1..Len(given) :
            (given[i][1] = 3 /\ given[i][2].kind = "string") =>
                Cardinality({j \in 1..Len(returned) :
                                /\ returned[j].type = "Registry Run Key (User)"
                                /\ returned[j].name = given[i][2].name
                                /\ returned[j].command = given[i][2].data}) = 1

\* C16, as stated: every emitted persistence record has is_suspicious = TRUE
\* whenever its command matches the suspiciousness predicate, and FALSE
\* otherwise.
C16_SuspiciousFlag ==
    call = "collect_registry_run_keys" =>
        \A j \in 1..Len(returned) :
            returned[j].is_suspicious = is_mechanism_suspicious(returned[j])

\* --- processes -------------------------------------------------------------
\* main, lines 190-211: a process as the report holds it.
process_json(p) == [pid |-> p.id, sha256_hash |-> p.sha256_hash]

\* collect_processes on a process table, with the processes of the report.
EmitProcesses(procs) ==
    /\ call = "none"
    /\ call' = "collect_processes"
    /\ given' = procs
    /\ returned' = LET got == collect_processes(procs)
                   IN  [processes |-> [i \in 1..Len(got.items) |-> process_json(got.items[i])],
                        logs |-> got.logs]
    /\ UNCHANGED <<logger_vars, helper_vars, main_vars>>

\* The processes of a table whose executable has a path and cannot be hashed.
HashFailing(procs) == {i \in 1..Len(procs) : procs[i].exe = "unreadable"}

\* The entries of logs at level lv whose message has the text `text`.
EntriesWith(logs, lv, text) ==
    {i \in 1..Len(logs) : logs[i][1] = lv /\ logs[i][2][1] = text}

\* C23: in one process-collection run with k executable-hash failures,
\* exactly min(k, 5) per-file hash-failure WARN entries are emitted, every one
\* of the k processes still gets sha256_hash = "ERROR", and when k > 0 exactly
\* one summary WARN reports the full count k.
C23_HashFailureWarningsCapped ==
    call = "collect_processes" =>
        LET k == Cardinality(HashFailing(given))
            summary == EntriesWith(returned.logs, "WARN", "Failed to calculate hashes")
        IN  /\ Cardinality(EntriesWith(returned.logs, "WARN", "Failed to calculate hash"))
                  = Min(k, 5)
            /\ \A i \in HashFailing(given) :
                  \E j \in 1..Len(returned.processes) :
                      /\ returned.processes[j].pid = given[i].pid
                      /\ returned.processes[j].sha256_hash = HashError
            /\ k > 0 => /\ Cardinality(summary) = 1
                        /\ \A i \in summary : returned.logs[i][2][2] = k

\* C23 witness: a run with more than five hash failures.
C23_Witness ==
    /\ call = "collect_processes"
    /\ Cardinality(HashFailing(given)) > 5
    /\ Cardinality(EntriesWith(returned.logs, "WARN", "Failed to calculate hash")) = 5

\* --- the persistence collector ----------------------------------------------
\* collect_persistence_mechanisms on what its four sub-collectors return.
EmitPersistence(env) ==
    /\ call = "none"
    /\ call' = "collect_persistence_mechanisms"
    /\ given' = env
    /\ returned' = collect_persistence_mechanisms(env)
    /\ UNCHANGED <<logger_vars, helper_vars, main_vars>>

\* The sub-collectors of an environment with the type of their records.
SubCollectors ==
    [run_keys |-> "Registry Run Key", startup |-> "Startup Folder",
     services |-> "Windows Service", tasks |-> "Scheduled Task"]

\* The sub-collectors that failed in env.
FailedIn(env) == {c \in DOMAIN SubCollectors : ~env[c].ok}

\* The positions of items holding a record of type src.
OfType(items, src) == {i \in 1..Len(items) : items[i].source = src}

\* items is sorted by (type, name).
SortedByTypeAndName(items) ==
    \A i, j \in 1..Len(items) :
        i < j => \/ PersistenceTypeRank(items[i].source) < PersistenceTypeRank(items[j].source)
                 \/ /\ items[i].source = items[j].source
                    /\ items[i].id <= items[j].id

PrefetchNames == <<"CALC.EXE-0FE8F3A9.pf", "NOTEPAD.EXE-D8414F97.pf">>
NameRank(name) == CHOOSE i \in 1..Len(PrefetchNames) : PrefetchNames[i] = name

\* A prefetch directory with the names of what the walk meets, in the order
\* the walk returns them: absent, or walked entry by entry.
NamedDirs(n) ==
    {[exists |-> FALSE, walk |-> <<>>, names |-> <<>>]}
    \cup UNION {[exists : {TRUE}, walk : [1..k -> {"pf_ok", "pf_err"}],
                 names : [1..k -> {PrefetchNames[i] : i \in 1..Len(PrefetchNames)}]] :
                k \in 0..n}

\* main, lines 347-353: a prefetch file as the report holds it; the file is
\* the id-th entry the walk of its directory returned.
prefetch_file_json(pf, dirs) ==
    [filename |-> dirs[pf.dir].names[pf.id]]

\* collect_prefetch_files on the two prefetch directories, and the files of
\* the report.
EmitPrefetchFiles(dirs) ==
    /\ call = "none"
    /\ call' = "collect_prefetch_files"
    /\ given' = dirs
    /\ returned' = LET got == collect_prefetch_files(dirs).items
                   IN  [i \in 1..Len(got) |-> prefetch_file_json(got[i], dirs)]
    /\ UNCHANGED <<logger_vars, helper_vars, main_vars>>

\* C26, as stated: the emitted prefetch_files sequence is sorted by filename,
\* whatever order the directory walk returns the files in and across all
\* scanned prefetch directories.
C26_PrefetchSortedByFilename ==
    call = "collect_prefetch_files" =>
        \A i, j \in 1..Len(returned) :
            i < j => NameRank(returned[i].filename) <= NameRank(returned[j].filename)

\* --- the AppCompatCache value ------------------------------------------------
\* AppCompatCache data is its length in bytes, the two header fields
\* parse_shimcache_data reads, and the path_length and path_offset fields of
\* the entries in the order they are met; where `fields` ends the buffer
\* holds zero bytes.
FieldsAt(data, k) ==
    IF k <= Len(data.fields) THEN data.fields[k] ELSE [path_length |-> 0, path_offset |-> 0]

\* parse_shimcache_data, lines 165-169: valid_signatures.
valid_signatures == {48, 52, 56, 128, 115, 116, 114, 111}

\* parse_windows10_entry at `offset` of the buffer, on the k-th entry: the
\* entry, the bytes read (as ranges first..last) and entry_size.
parse_windows10_at(data, offset, k) ==
    LET f == FieldsAt(data, k)
        slice_len == data.len - offset
        path_in == f.path_offset + f.path_length <= slice_len
    IN  [entry |-> [path |-> IF path_in THEN "decoded path" ELSE "Unknown path",
                    execution_flag |-> TRUE, at |-> offset],
         reads |-> {<<offset, offset + 31>>}
                   \cup (IF path_in /\ f.path_length > 0
                         THEN {<<offset + f.path_offset,
                                 offset + f.path_offset + f.path_length - 1>>}
                         ELSE {}),
         entry_size |-> 32 + f.path_length]

\* parse_shimcache_entry at `offset` of the buffer.  The slice holds at
\* least 32 bytes and the signature is a valid one when the loop calls it.
parse_shimcache_entry_at(data, offset, k) ==
    IF data.len - offset < 32 THEN [ok |-> FALSE]
    ELSE IF data.signature \in {48, 52, 56}
    THEN [ok |-> TRUE] @@ parse_windows10_at(data, offset, k)
    ELSE IF data.signature \in {128, 115, 116}
    THEN [ok |-> TRUE, entry_size |-> 32, reads |-> {},
          entry |-> [path |-> "Windows 8 entry", execution_flag |-> FALSE, at |-> offset]]
    ELSE IF data.signature \in {114, 111}
    THEN [ok |-> TRUE, entry_size |-> 32, reads |-> {},
          entry |-> [path |-> "Windows 7 entry", execution_flag |-> FALSE, at |-> offset]]
    ELSE [ok |-> FALSE]

\* Faulty variant of iteration_limit: the header's count is taken as it is.
iteration_limit_uncapped(num_entries) == num_entries

\* parse_shimcache_data, line 178: num_entries.min(1000).
iteration_limit(num_entries) == Min(num_entries, ShimcacheEntryLimit)

\* parse_shimcache_data, lines 179-193: the body of the loop, once.  `st`
\* is what the loop has so far; `done` is set by a break.
loop_body(data, st) ==
    LET now == [st EXCEPT !.iterations = @ + 1]
    IN  IF st.offset + 32 > data.len THEN [now EXCEPT !.done = TRUE]
        ELSE LET r == parse_shimcache_entry_at(data, st.offset, Len(st.entries) + 1)
             IN  IF ~r.ok THEN [now EXCEPT !.done = TRUE]
                 ELSE [now EXCEPT !.entries = Append(@, r.entry),
                                  !.reads = @ \cup r.reads,
                                  !.offset = @ + r.entry_size]

\* parse_shimcache_data, line 178: the iterations lo..(hi - 1) of the loop,
\* one after the other (the range is halved to keep the evaluation shallow).
RECURSIVE parse_loop(_, _, _, _)
parse_loop(data, lo, hi, st) ==
    IF st.done \/ lo >= hi THEN st
    ELSE IF hi - lo = 1 THEN loop_body(data, st)
    ELSE LET mid == lo + (hi - lo) \div 2
         IN  parse_loop(data, mid, hi, parse_loop(data, lo, mid, st))

\* parse_shimcache_data
parse_shimcache_data(data) ==
    IF data.len < 16
    THEN [ok |-> FALSE, error |-> "Shimcache data too small", entries |-> <<>>,
          reads |-> {}, iterations |-> 0]
    ELSE IF data.signature \notin valid_signatures
    THEN [ok |-> FALSE, error |-> "Invalid shimcache signature", entries |-> <<>>,
          reads |-> {<<0, 7>>}, iterations |-> 0]
    ELSE LET st == parse_loop(data, 0, iteration_limit(data.num_entries),
                              [entries |-> <<>>, reads |-> {<<0, 7>>}, iterations |-> 0,
                               offset |-> 16, done |-> FALSE])
         IN  [ok |-> TRUE, error |-> "none", entries |-> st.entries, reads |-> st.reads,
              iterations |-> st.iterations]

\* The fields of an entry: no path, a path after the entry's 32 bytes, a path
\* longer than any buffer here, a path offset beyond any buffer here.
EntryFields ==
    {[path_length |-> 0, path_offset |-> 0], [path_length |-> 10, path_offset |-> 32],
     [path_length |-> 65535, path_offset |-> 32], [path_length |-> 10, path_offset |-> 65535]}

\* The buffers given: short ones of every length around the header and the
\* entries, with every kind of signature and count; and long ones filled
\* with zero bytes whose count is at and above the limit.
CacheData ==
    [len : {0, 15, 16, 47, 48, 58, 79, 80, 122}, signature : {0, 48, 128, 114},
     num_entries : {0, 1, 2, 3, 100000}, fields : SeqsUpTo(EntryFields, MaxCacheFields)]
    \cup [len : {16 + 32 * ShimcacheEntryLimit, 16 + 32 * (ShimcacheEntryLimit + 1)},
          signature : {48, 128}, num_entries : {ShimcacheEntryLimit + 1, 100000},
          fields : {<<>>}]

\* parse_shimcache_data on the data of an AppCompatCache value.
EmitCacheData(data) ==
    /\ call = "none"
    /\ call' = "parse_shimcache_data"
    /\ given' = data
    /\ returned' = parse_shimcache_data(data)
    /\ UNCHANGED <<logger_vars, helper_vars, main_vars>>

\* The size of the k-th entry of the buffer as its fields give it.
EntrySize(data, k) ==
    IF data.signature \in {48, 52, 56} THEN 32 + FieldsAt(data, k).path_length ELSE 32

\* Where the entry after the entries decoded so far starts: after the
\* header's 16 bytes, or after the last entry.
NextOffset(data, decoded) ==
    IF decoded = <<>> THEN 16
    ELSE decoded[Len(decoded)].at + EntrySize(data, Len(decoded))

\* C27: for every byte string given as AppCompatCache data,
\* parse_shimcache_data terminates after at most min(header entry count, 1000)
\* iterations, never reads outside the buffer, and returns either an error
\* (fewer than 16 bytes or an unrecognised signature) or exactly the entries
\* decoded before the first entry that does not fit: the entries lie one
\* after the other from offset 16, each fits, and the one after the last
\* does not fit unless the iterations ran out.
C27_ParseShimcacheData ==
    call = "parse_shimcache_data" =>
        LET n == Len(returned.entries)
            limit == Min(given.num_entries, 1000)
        IN  /\ returned.iterations <= limit
            /\ \A r \in returned.reads : 0 <= r[1] /\ r[1] <= r[2] /\ r[2] < given.len
            /\ ~returned.ok <=> (given.len < 16 \/ given.signature \notin valid_signatures)
            /\ ~returned.ok => n = 0
            /\ returned.ok =>
                  /\ \A k \in 1..n :
                        /\ returned.entries[k].at
                              = NextOffset(given, SubSeq(returned.entries, 1, k - 1))
                        /\ returned.entries[k].at + 32 <= given.len
                  /\ n <= limit
                  /\ n < limit => NextOffset(given, returned.entries) + 32 > given.len

\* C27 witness: a buffer whose count is above the limit and that holds more
\* than 1000 entries, of which 1000 are returned.
C27_Witness ==
    /\ call = "parse_shimcache_data"
    /\ given.num_entries > 1000 /\ given.len >= 16 + 32 * 1001
    /\ returned.ok /\ Len(returned.entries) = 1000

\* --- services and scheduled tasks -----------------------------------------
\* str::ends_with
ends_with(s, p) == Len(s) >= Len(p) /\ SubSeq(s, Len(s) - Len(p) + 1, Len(s)) = p

\* str::starts_with
starts_with(s, p) == Len(s) >= Len(p) /\ SubSeq(s, 1, Len(p)) = p

\* str::eq_ignore_ascii_case
eq_ignore_ascii_case(a, b) == to_lowercase(a) = to_lowercase(b)

\* is_potentially_suspicious_service, lines 202-209.
known_safe_services ==
    <<<<"w", "u", "a", "u", "s", "e", "r", "v">>,
      <<"b", "i", "t", "s">>,
      <<"e", "v", "e", "n", "t", "l", "o", "g">>,
      <<"w", "i", "n", "m", "g", "m", "t">>,
      <<"s", "c", "h", "e", "d", "u", "l", "e">>,
      <<"t", "h", "e", "m", "e", "s">>,
      <<"a", "u", "d", "i", "o", "s", "r", "v">>,
      <<"b", "r", "o", "w", "s", "e", "r">>,
      <<"d", "h", "c", "p">>,
      <<"d", "n", "s", "c", "a", "c", "h", "e">>,
      <<"l", "a", "n", "m", "a", "n", "s", "e", "r", "v", "e", "r">>,
      <<"l", "a", "n", "m", "a", "n", "w", "o", "r", "k", "s", "t", "a", "t", "i", "o", "n">>,
      <<"n", "e", "t", "l", "o", "g", "o", "n">>,
      <<"n", "l", "a">>,
      <<"p", "o", "l", "i", "c", "y", "a", "g", "e", "n", "t">>,
      <<"r", "p", "c", "s", "s">>,
      <<"s", "a", "m", "s", "s">>,
      <<"s", "e", "c", "l", "o", "g", "o", "n">>,
      <<"s", "e", "n", "s">>,
      <<"s", "h", "a", "r", "e", "d", "a", "c", "c", "e", "s", "s">>,
      <<"s", "h", "e", "l", "l", "h", "w", "d", "e", "t", "e", "c", "t", "i", "o", "n">>,
      <<"s", "p", "o", "o", "l", "e", "r">>,
      <<"s", "r", "s", "e", "r", "v", "i", "c", "e">>,
      <<"s", "s", "d", "p", "s", "r", "v">>,
      <<"s", "t", "i", "s", "v", "c">>,
      <<"t", "a", "p", "i", "s", "r", "v">>,
      <<"t", "e", "r", "m", "s", "e", "r", "v", "i", "c", "e">>,
      <<"w", "3", "2", "t", "i", "m", "e">>,
      <<"w", "i", "n", "h", "t", "t", "p">>,
      <<"w", "m", "i">>,
      <<"w", "s", "e", "a", "r", "c", "h">>,
      <<"w", "u", "a", "u", "s", "e", "r", "v">>>>

\* is_potentially_suspicious_service, lines 216-219.
suspicious_paths ==
    <<<<"t", "e", "m", "p">>,
      <<"t", "m", "p">>,
      <<"a", "p", "p", "d", "a", "t", "a">>,
      <<"d", "o", "w", "n", "l", "o", "a", "d", "s">>,
      <<"d", "e", "s", "k", "t", "o", "p">>,
      <<"d", "o", "c", "u", "m", "e", "n", "t", "s">>,
      <<"p", "u", "b", "l", "i", "c">>,
      <<"u", "s", "e", "r", "s", "\\", "p", "u", "b", "l", "i", "c">>,
      <<"p", "r", "o", "g", "r", "a", "m", "d", "a", "t", "a">>>>

\* is_potentially_suspicious_service, lines 221-223.
service_suspicious_extensions ==
    <<<<".", "b", "a", "t">>,
      <<".", "c", "m", "d">>,
      <<".", "p", "s", "1">>,
      <<".", "v", "b", "s">>,
      <<".", "j", "s">>,
      <<".", "j", "a", "r">>,
      <<".", "s", "c", "r">>>>

\* is_potentially_suspicious_service, lines 236-239: the standard directories.
standard_directories ==
    <<<<"s", "y", "s", "t", "e", "m", "3", "2">>,
      <<"s", "y", "s", "w", "o", "w", "6", "4">>,
      <<"p", "r", "o", "g", "r", "a", "m", " ", "f", "i", "l", "e", "s">>,
      <<"w", "i", "n", "d", "o", "w", "s", "\\">>>>

\* is_potentially_suspicious_service
is_potentially_suspicious_service(name, image_path) ==
    LET name_lower == to_lowercase(name)
        path_lower == to_lowercase(image_path)
    IN  IF \E k \in 1..Len(known_safe_services) : contains(name_lower, known_safe_services[k])
        THEN FALSE
        ELSE IF \E k \in 1..Len(suspicious_paths) : contains(path_lower, suspicious_paths[k])
        THEN TRUE
        ELSE IF \E k \in 1..Len(service_suspicious_extensions) :
                    ends_with(path_lower, service_suspicious_extensions[k])
        THEN TRUE
        ELSE \A k \in 1..Len(standard_directories) :
                 ~contains(path_lower, standard_directories[k])

\* The services of the Services key: a name, and the ImagePath value when the
\* key has one that reads as a string.
ServiceNames == {<<"S", "p", "o", "o", "l", "e", "r">>, <<"A", "g", "e", "n", "t">>}
ImagePaths ==
    {<<"C", ":", "\\", "W", "i", "n", "d", "o", "w", "s", "\\", "S", "y", "s", "t", "e", "m", "3", "2", "\\", "s", "v", "c", ".", "e", "x", "e">>,
     <<"C", ":", "\\", "U", "s", "e", "r", "s", "\\", "P", "u", "b", "l", "i", "c", "\\", "a", ".", "e", "x", "e">>,
     <<"C", ":", "\\", "W", "i", "n", "d", "o", "w", "s", "\\", "S", "y", "s", "t", "e", "m", "3", "2", "\\", "r", "u", "n", ".", "b", "a", "t">>,
     <<"D", ":", "\\", "T", "o", "o", "l", "s", "\\", "s", "v", "c", ".", "e", "x", "e">>}
ServiceKeys ==
    [name : ServiceNames, image_path : {None} \cup {Some(p) : p \in ImagePaths}]

\* collect_service_persistence, lines 175-192: the loop over the services,
\* suspicious[i] being what is_potentially_suspicious_service answers for
\* the i-th of them.
service_records(services, suspicious) ==
    LET kept == SelectSeq([i \in 1..Len(services) |-> i],
                          LAMBDA i : services[i].image_path.some /\ suspicious[i])
    IN  [k \in 1..Len(kept) |->
            PersistenceMechanism_new(
                PersistenceType_as_str("Service"),
                services[kept[k]].name, services[kept[k]].image_path.value,
                <<"H", "K", "L", "M", "\\", "S", "Y", "S", "T", "E", "M", "\\", "C", "u", "r", "r", "e", "n", "t", "C", "o", "n", "t", "r", "o", "l", "S", "e", "t", "\\", "S", "e", "r", "v", "i", "c", "e", "s", "\\">> \o services[kept[k]].name)]

\* collect_service_persistence on the services of the key.
collect_service_persistence(services) ==
    service_records(services,
        [i \in 1..Len(services) |->
            services[i].image_path.some
            /\ is_potentially_suspicious_service(services[i].name,
                                                 services[i].image_path.value)])

\* is_suspicious_task_command, lines 361-365.
task_suspicious_patterns ==
    <<<<"p", "o", "w", "e", "r", "s", "h", "e", "l", "l">>,
      <<"c", "m", "d", ".", "e", "x", "e">>,
      <<"w", "s", "c", "r", "i", "p", "t">>,
      <<"c", "s", "c", "r", "i", "p", "t">>,
      <<"r", "e", "g", "s", "v", "r", "3", "2">>,
      <<"r", "u", "n", "d", "l", "l", "3", "2">>,
      <<"m", "s", "h", "t", "a">>,
      <<"b", "i", "t", "s", "a", "d", "m", "i", "n">>,
      <<"c", "e", "r", "t", "u", "t", "i", "l">>,
      <<"t", "e", "m", "p", "\\">>,
      <<"t", "m", "p", "\\">>,
      <<"a", "p", "p", "d", "a", "t", "a", "\\">>,
      <<"d", "o", "w", "n", "l", "o", "a", "d", "s", "\\">>,
      <<"p", "u", "b", "l", "i", "c", "\\">>,
      <<".", "b", "a", "t">>,
      <<".", "c", "m", "d">>,
      <<".", "p", "s", "1">>,
      <<".", "v", "b", "s">>,
      <<".", "j", "s">>>>

\* is_suspicious_task_command
is_suspicious_task_command(command) ==
    \E k \in 1..Len(task_suspicious_patterns) :
        contains(to_lowercase(command), task_suspicious_patterns[k])

\* extract_task_name: what follows the last backslash.
extract_task_name(task_path) ==
    LET cuts == {i \in 1..Len(task_path) : task_path[i] = "\\"}
        last == IF cuts = {} THEN 0 ELSE CHOOSE i \in cuts : \A j \in cuts : j <= i
    IN  SubSeq(task_path, last + 1, Len(task_path))

\* The rows schtasks prints: TaskName, Status, Run As User, Task To Run.
TaskRows ==
    [task_name : {<<"\\", "V", "e", "n", "d", "o", "r", "\\", "U", "p", "d", "a", "t", "e">>, <<"B", "a", "c", "k", "u", "p">>},
     status : {<<"R", "e", "a", "d", "y">>, <<"R", "U", "N", "N", "I", "N", "G">>, <<"D", "i", "s", "a", "b", "l", "e", "d">>},
     run_as_user : {<<"S", "Y", "S", "T", "E", "M">>},
     command : {<<"C", ":", "\\", "A", "p", "p", "\\", "u", ".", "e", "x", "e">>,
                <<"P", "o", "w", "e", "r", "S", "h", "e", "l", "l", " ", "-", "e", "n", "c">>}]

\* collect_scheduled_tasks, lines 310-343: the loop over the rows,
\* suspicious[i] being what is_suspicious_task_command answers for the i-th.
task_records(rows, suspicious) ==
    LET kept == SelectSeq([i \in 1..Len(rows) |-> i],
                          LAMBDA i : \/ eq_ignore_ascii_case(rows[i].status, <<"R", "e", "a", "d", "y">>)
                                     \/ eq_ignore_ascii_case(rows[i].status, <<"R", "u", "n", "n", "i", "n", "g">>)
                                     \/ suspicious[i])
        task_path(r) == IF starts_with(r.task_name, <<"\\">>) THEN r.task_name
                        ELSE <<"\\">> \o r.task_name
    IN  [k \in 1..Len(kept) |->
            LET r == rows[kept[k]]
            IN  PersistenceMechanism_new(
                    PersistenceType_as_str("ScheduledTask"),
                    extract_task_name(task_path(r)),
                    r.command \o <<" ", "(", "U", "s", "e", "r", ":", " ">> \o r.run_as_user \o <<")">>,
                    <<"T", "a", "s", "k", " ", "S", "c", "h", "e", "d", "u", "l", "e", "r", ":", " ">> \o task_path(r))]

\* collect_scheduled_tasks on the rows schtasks printed.
collect_scheduled_tasks(rows) ==
    task_records(rows, [i \in 1..Len(rows) |-> is_suspicious_task_command(rows[i].command)])

\* collect_service_persistence on a Services key, and the records of the report.
EmitServices(services) ==
    /\ call = "none"
    /\ call' = "collect_service_persistence"
    /\ given' = services
    /\ returned' = LET got == collect_service_persistence(services)
                   IN  [i \in 1..Len(got) |-> persistence_json(got[i])]
    /\ UNCHANGED <<logger_vars, helper_vars, main_vars>>

\* collect_scheduled_tasks on the rows of schtasks, and the records of the report.
EmitTasks(rows) ==
    /\ call = "none"
    /\ call' = "collect_scheduled_tasks"
    /\ given' = rows
    /\ returned' = LET got == collect_scheduled_tasks(rows)
                   IN  [i \in 1..Len(got) |-> persistence_json(got[i])]
    /\ UNCHANGED <<logger_vars, helper_vars, main_vars>>

\* The names and commands of the records emitted.
EmittedRecords(records) ==
    {<<records[i].name, records[i].command>> : i \in 1..Len(records)}

\* C22, as stated: whether a persistence artifact is emitted never depends on
\* a suspiciousness heuristic: whatever the suspicious-service and
\* suspicious-command predicates answer, the same set of records is emitted.
C22_HeuristicsNeverGate ==
    /\ call = "collect_service_persistence" =>
          \A suspicious \in [1..Len(given) -> BOOLEAN] :
              EmittedRecords(service_records(given, suspicious)) = EmittedRecords(returned)
    /\ call = "collect_scheduled_tasks" =>
          \A suspicious \in [1..Len(given) -> BOOLEAN] :
              EmittedRecords(task_records(given, suspicious)) = EmittedRecords(returned)

\* --- timestamps -----------------------------------------------------------
\* A timestamp string is its text form with the instant it names: the form
\* DateTime::to_rfc3339 writes, or a word put in its place.
to_rfc3339(instant) == [form |-> "date-time", at |-> instant]
Word(w) == [form |-> w, at |-> 0]

\* chrono::DateTime::parse_from_rfc3339(..).is_ok()
parses_rfc3339(s) == s.form = "date-time"

\* convert_event_timestamp: seconds since 1970; from_timestamp takes every
\* u32.
convert_event_timestamp(timestamp) == to_rfc3339(timestamp)

\* --- event logs -----------------------------------------------------------
\* The most records the three event logs hold together.
MaxEventRecords == 2

\* get_security_event_filter, get_system_event_filter and
\* get_application_event_filter: some of the event IDs each keeps.
event_filter(log_name) ==
    CASE log_name = "Security"    -> {4624, 4625}
      [] log_name = "System"      -> {7036}
      [] log_name = "Application" -> {1000}

\* EventLogEntry::new
EventLogEntry_new(event_id, level, timestamp, message) ==
    [event_id |-> event_id, level |-> level, timestamp |-> timestamp,
     message |-> message, source |-> "Unknown"]

\* parse_event_record, lines 164-172: the level of an event type.
event_level(event_type) ==
    CASE event_type = "EVENTLOG_ERROR_TYPE"       -> "Error"
      [] event_type = "EVENTLOG_WARNING_TYPE"     -> "Warning"
      [] event_type = "EVENTLOG_INFORMATION_TYPE" -> "Information"
      [] event_type = "EVENTLOG_AUDIT_SUCCESS"    -> "Audit Success"
      [] event_type = "EVENTLOG_AUDIT_FAILURE"    -> "Audit Failure"
      [] OTHER                                    -> "Unknown"

\* parse_event_record: the entry of a record the filter keeps, or an error.
parse_event_record(record, filter) ==
    IF record.EventID \notin filter THEN Err("NotFound")
    ELSE Ok(EventLogEntry_new(record.EventID, event_level(record.EventType),
                              convert_event_timestamp(record.TimeGenerated),
                              record.EventID))

\* The records of the logs: an event ID some filter keeps or none does.
EventRecords ==
    [log : {"Security", "System", "Application"}, EventID : {4624, 7036, 9999},
     EventType : {"EVENTLOG_ERROR_TYPE", "EVENTLOG_AUDIT_SUCCESS"},
     TimeGenerated : {1700000000, 1700000001}]

\* collect_events_from_log: the records of the log that parse, the most
\* recent first.
collect_events_from_log(log_name, records) ==
    LET mine == SelectSeq(records, LAMBDA r : r.log = log_name)
        kept == SelectSeq(mine, LAMBDA r : parse_event_record(r, event_filter(log_name)).ok)
    IN  SortBy([i \in 1..Len(kept) |->
                   parse_event_record(kept[i], event_filter(log_name)).value],
               LAMBDA a, b : b.timestamp.at < a.timestamp.at)

\* main, lines 291-318: an event as the report holds it.
event_json(e) ==
    [event_id |-> e.event_id, level |-> e.level, timestamp |-> e.timestamp,
     message |-> e.message, source |-> e.source]

\* The three logs read, and the event_logs object of the report.
EmitEvents(records) ==
    /\ call = "none"
    /\ call' = "collect_event_logs"
    /\ given' = records
    /\ returned' =
          [log \in {"Security", "System", "Application"} |->
              LET got == collect_events_from_log(log, records)
              IN  [i \in 1..Len(got) |-> event_json(got[i])]]
    /\ UNCHANGED <<logger_vars, helper_vars, main_vars>>

\* C18, as stated: every emitted event-log entry has source equal to the
\* name of the log it was read from (Security, System or Application).
C18_EventSourceIsLogName ==
    call = "collect_event_logs" =>
        \A log \in {"Security", "System", "Application"} :
            \A i \in 1..Len(returned[log]) : returned[log][i].source = log

\* --- execution evidence ---------------------------------------------------
\* FILETIME values are counted in days of 864,000,000,000 ticks, so that the
\* largest 64-bit value is a number TLC holds; the 11644473600 seconds between
\* 1601 and 1970 are 134774 such days.
FILETIME_EPOCH_DIFF == 134774

\* The largest u64 FILETIME, in days.
FILETIME_MAX == 21350398

\* u64::saturating_sub
saturating_sub(a, b) == IF a >= b THEN a - b ELSE 0

\* chrono::DateTime::from_timestamp: Some for the instants chrono can hold
\* (years up to 262142), which covers every u64 FILETIME.
from_timestamp(unix_timestamp) ==
    IF unix_timestamp <= 95000000 THEN Some(unix_timestamp) ELSE None

\* filetime_to_string
filetime_to_string(filetime) ==
    IF filetime = 0 THEN Word("Not set")
    ELSE LET unix_timestamp == saturating_sub(filetime, FILETIME_EPOCH_DIFF)
         IN  IF from_timestamp(unix_timestamp).some
             THEN to_rfc3339(from_timestamp(unix_timestamp).value)
             ELSE Word("Invalid timestamp")

\* The FILETIME values read: unset, before 1970, 1970, after it, the largest.
FileTimes == {0, 1, FILETIME_EPOCH_DIFF - 1, FILETIME_EPOCH_DIFF,
              FILETIME_EPOCH_DIFF + 19000, FILETIME_MAX}

\* parse_windows10_entry, lines 229-253: the fields of an entry.
parse_windows10_entry(data) ==
    [path |-> data.path, last_modified |-> filetime_to_string(data.last_modified_raw),
     file_size |-> data.file_size, last_update |-> filetime_to_string(data.last_update_raw),
     execution_flag |-> TRUE]

\* main, lines 386-396: a shimcache entry as the report holds it.
shimcache_json(sc) ==
    [path |-> sc.path, last_modified |-> sc.last_modified, file_size |-> sc.file_size,
     last_update |-> sc.last_update, execution_flag |-> sc.execution_flag]

\* An AppCompatCache entry parsed, and the entry of the report.
EmitShimcacheEntry(data) ==
    /\ call = "none"
    /\ call' = "parse_shimcache_entry"
    /\ given' = data
    /\ returned' = shimcache_json(parse_windows10_entry(data))
    /\ UNCHANGED <<logger_vars, helper_vars, main_vars>>

\* The lengths of the prefetch files read, around the 24 bytes
\* extract_last_run_time asks for.
PrefetchLengths == {0, 23, 24, 25, 4096}

\* extract_last_run_time: Utc::now() is the instant `now`.
extract_last_run_time(len, now) ==
    IF len >= 24 THEN to_rfc3339(now) ELSE Word("Unknown")

\* parse_prefetch_data, lines 186-199, and main, lines 347-353: the
\* timestamps of a prefetch file as the report holds them.
prefetch_json(len, now, created) ==
    [file_size |-> len, last_run_time |-> extract_last_run_time(len, now),
     creation_time |-> IF created.ok THEN to_rfc3339(created.value) ELSE Word("Unknown")]

\* A prefetch file analyzed, and the file of the report.
EmitPrefetchFile(len, created) ==
    /\ call = "none"
    /\ call' = "analyze_prefetch_file"
    /\ given' = [len |-> len, created |-> created]
    /\ returned' = prefetch_json(len, 20000, created)
    /\ UNCHANGED <<logger_vars, helper_vars, main_vars>>

\* C19, as stated: every timestamp field of the emitted report parses as
\* RFC 3339 for every input: last_modified and last_update of a shimcache
\* entry for every 64-bit FILETIME, last_run_time of a prefetch file for
\* files of every length.
C19_TimestampsParse ==
    /\ call = "parse_shimcache_entry" =>
          parses_rfc3339(returned.last_modified) /\ parses_rfc3339(returned.last_update)
    /\ call = "analyze_prefetch_file" => parses_rfc3339(returned.last_run_time)

\* --- network connections --------------------------------------------------
\* The most rows the TCP and UDP tables hold together.
MaxConnections == 2

\* NetworkConnection::new; an address is given as the pair that
\* extract_address_and_port makes of it.
NetworkConnection_new(protocol, local_address, remote_address, state, owning_pid) ==
    [protocol |-> protocol,
     local_address |-> local_address[1], local_port |-> local_address[2],
     remote_address |-> remote_address[1], remote_port |-> remote_address[2],
     state |-> state, owning_pid |-> owning_pid, process_name |-> ""]

\* NetworkConnection::is_external
is_external(conn) ==
    conn.remote_address \notin {"127.0.0.1", "::1", "0.0.0.0", "*"}

\* main, lines 230-242: a connection as the report holds it.
network_json(conn) ==
    [protocol |-> conn.protocol,
     local_address |-> conn.local_address, local_port |-> conn.local_port,
     remote_address |-> conn.remote_address, remote_port |-> conn.remote_port,
     state |-> conn.state, owning_pid |-> conn.owning_pid,
     process_name |-> conn.process_name, is_external |-> is_external(conn)]

\* The processes of the scan: some of the PIDs 4 and 8, each with its name.
ProcessTables ==
    UNION {[S -> {"svchost.exe", "chrome.exe"}] : S \in SUBSET {4, 8}}

\* The rows of the TCP and UDP tables: the owner is a collected process or
\* one that is not (PID 12).
ConnectionRows ==
    [protocol : {"TCP", "UDP"}, remote : {<<"127.0.0.1", 80>>, <<"8.8.8.8", 443>>},
     pid : {4, 8, 12}]

\* collect_tcp_connections and collect_udp_connections, lines 115-121 and
\* 177-183: one NetworkConnection for each row.
collect_connections(rows) ==
    [i \in 1..Len(rows) |->
        NetworkConnection_new(rows[i].protocol, <<"0.0.0.0", 1024 + i>>, rows[i].remote,
                              IF rows[i].protocol = "TCP" THEN "ESTABLISHED" ELSE "LISTENING",
                              rows[i].pid)]

\* The network collection after the process collection of the same scan,
\* and the connections of the report.
EmitConnections(procs, rows) ==
    /\ call = "none"
    /\ call' = "collect_network_connections"
    /\ given' = [processes |-> procs, rows |-> rows]
    /\ returned' = LET got == collect_connections(rows)
                   IN  [i \in 1..Len(got) |-> network_json(got[i])]
    /\ UNCHANGED <<logger_vars, helper_vars, main_vars>>

\* C17, as stated: for every emitted network connection whose owning_pid is
\* the PID of a process collected in the same scan, process_name is that
\* process's name.
C17_ProcessNameFilled ==
    call = "collect_network_connections" =>
        \A i \in 1..Len(returned) :
            returned[i].owning_pid \in DOMAIN given.processes =>
                returned[i].process_name = given.processes[returned[i].owning_pid]

\* Each behaviour applies one collection function to one input: the functions
\* keep no state between calls.
InitRecords ==
    InitLoggerVars(DefaultMaxEntries) /\ InitHelperVars /\ InitMainVars /\ InitRecordVars

NextRecords ==
    /\ call = "none"
    /\ \/ \E reg \in Registries(MaxRunValues) : EmitRunKeys(reg)
       \/ \E procs \in ProcessTables, rows \in SeqsUpTo(ConnectionRows, MaxConnections) :
             EmitConnections(procs, rows)
       \/ \E records \in SeqsUpTo(EventRecords, MaxEventRecords) : EmitEvents(records)
       \/ \E env \in PersistenceEnvs(MaxMechanisms) : EmitPersistence(env)
       \/ \E services \in SeqsUpTo(ServiceKeys, MaxServices) : EmitServices(services)
       \/ \E data \in CacheData : EmitCacheData(data)
       \/ \E d1 \in NamedDirs(MaxPrefetchEntries), d2 \in NamedDirs(MaxPrefetchEntries) :
             EmitPrefetchFiles(<<d1, d2>>)
       \/ \E procs \in ProcessEnvs(MaxProcesses) : EmitProcesses(procs)
       \/ \E rows \in SeqsUpTo(TaskRows, MaxTasks) : EmitTasks(rows)
       \/ \E lm \in FileTimes, lu \in FileTimes :
             EmitShimcacheEntry([path |-> "C:\\App\\u.exe", file_size |-> 4096,
                                 last_modified_raw |-> lm, last_update_raw |-> lu])
       \/ \E len \in PrefetchLengths, created \in {Ok(19000), Err("Unknown")} :
             EmitPrefetchFile(len, created)

SpecRecords == InitRecords /\ [][NextRecords]_vars

====
